---- MODULE Spec2Model ----
(***************************************************************************)
(* Orb emotion analysis backend: keyword scorer (server_simple.py),        *)
(* context window analyzer (context_analyzer.py) and hybrid combiner       *)
(* (ml_emotion_detector.py).                                               *)
(*                                                                         *)
(* Texts are sequences of one-character strings, so that Python's          *)
(* substring test `kw in text` is modelled character by character.         *)
(* Confidence and intensity are floats in the source; here they are        *)
(* integers in thousandths (0.98 is 980, 0.12 per score point is 120).     *)
(***************************************************************************)
EXTENDS Integers, Sequences, FiniteSets, TLC

VARIABLES
  text,                  \* input text of the scorer call under analysis
  result,                \* value returned by EmotionAnalysisService.analyze_emotion
  hybrid_out,            \* value returned by analyze_emotion_hybrid for that result
  advanced_features_available,  \* EmotionAnalysisService.advanced_features_available
  conversation_history,  \* ContextWindowAnalyzer.conversation_history (defaultdict of deques)
  user_patterns,         \* ContextWindowAnalyzer.user_patterns (defaultdict of dicts)
  call_log,              \* per conversation: every entry ever appended, in call order
  last_call,             \* the last completed handler call and what it returned
  clock,                 \* logical time read by datetime.utcnow()
  window_history,        \* the history argument of _analyze_context_window
  window_out,            \* the analysis computed for window_history
  threads,               \* callers running analyze_context statement by statement
  settings,              \* server.py: whether an API key and the redis cache are configured
  circuit_breaker_state, \* server.py: EmotionAnalysisService.circuit_breaker_state
  utcnow,                \* server.py: seconds read by datetime.utcnow()
  hf_cache,              \* server.py: the redis entries written by analyze_with_huggingface
  ai,                    \* server.py: the analyze_emotion call in progress, attempt by attempt
  feedback,              \* feedback_system.py: rows of table feedback, in insertion order
  model_improvements,    \* feedback_system.py: rows of table model_improvements
  feedback_out           \* feedback_system.py: what the last collector/analyzer call returned

scorer_vars == <<text, result, hybrid_out>>

analyzer_vars ==
  <<advanced_features_available, conversation_history, user_patterns,
    call_log, last_call, clock>>

window_vars == <<window_history, window_out>>

ai_vars == <<settings, circuit_breaker_state, utcnow, hf_cache, ai>>

feedback_vars == <<feedback, model_improvements, feedback_out>>

vars == <<scorer_vars, analyzer_vars, window_vars, threads, ai_vars, feedback_vars>>

(***************************************************************************)
(* Lexicon: EmotionAnalysisService.__init__, self.emotion_data and         *)
(* self.context_overrides, copied keyword by keyword.                      *)
(***************************************************************************)
joy_strong_keywords ==
  <<
    <<"e","c","s","t","a","t","i","c">>,
    <<"e","l","a","t","e","d">>,
    <<"t","h","r","i","l","l","e","d">>,
    <<"o","v","e","r","j","o","y","e","d">>,
    <<"e","u","p","h","o","r","i","c">>,
    <<"b","l","i","s","s","f","u","l">>,
    <<"p","r","o","m","o","t","e","d">>,
    <<"w","o","n">>,
    <<"l","o","t","t","e","r","y">>,
    <<"j","a","c","k","p","o","t">>,
    <<"v","i","c","t","o","r","y">>,
    <<"t","r","i","u","m","p","h">>,
    <<"c","h","a","m","p","i","o","n">>,
    <<"f","i","r","s","t"," ","p","l","a","c","e">>,
    <<"e","x","h","i","l","a","r","a","t","e","d">>,
    <<"j","u","b","i","l","a","n","t">>,
    <<"r","a","p","t","u","r","o","u","s">>,
    <<"e","c","s","t","a","s","y">>,
    <<"e","u","p","h","o","r","i","a">>,
    <<"b","l","i","s","s">>,
    <<"a","c","h","i","e","v","e","m","e","n","t">>,
    <<"s","u","c","c","e","s","s">>,
    <<"a","c","c","o","m","p","l","i","s","h","m","e","n","t">>,
    <<"b","r","e","a","k","t","h","r","o","u","g","h">>,
    <<"m","i","l","e","s","t","o","n","e">>
  >>

joy_moderate_keywords ==
  <<
    <<"h","a","p","p","y">>,
    <<"j","o","y">>,
    <<"j","o","y","f","u","l">>,
    <<"e","x","c","i","t","e","d">>,
    <<"w","o","n","d","e","r","f","u","l">>,
    <<"a","m","a","z","i","n","g">>,
    <<"f","a","n","t","a","s","t","i","c">>,
    <<"g","r","e","a","t">>,
    <<"a","w","e","s","o","m","e">>,
    <<"b","l","e","s","s","e","d">>,
    <<"g","r","a","t","e","f","u","l">>,
    <<"c","h","e","e","r","f","u","l">>,
    <<"d","e","l","i","g","h","t","e","d">>,
    <<"g","o","o","d">>,
    <<"e","x","c","e","l","l","e","n","t">>,
    <<"p","e","r","f","e","c","t">>,
    <<"l","o","v","e"," ","i","t">>,
    <<"a","c","h","i","e","v","e","d">>,
    <<"s","u","c","c","e","s","s">>,
    <<"a","c","c","o","m","p","l","i","s","h","e","d">>,
    <<"p","r","o","u","d">>,
    <<"p","l","e","a","s","e","d">>,
    <<"c","o","n","t","e","n","t">>,
    <<"s","a","t","i","s","f","i","e","d">>,
    <<"g","l","a","d">>,
    <<"m","e","r","r","y">>,
    <<"j","o","l","l","y">>,
    <<"l","i","v","e","l","y">>,
    <<"v","i","b","r","a","n","t">>,
    <<"e","n","e","r","g","e","t","i","c">>,
    <<"e","n","t","h","u","s","i","a","s","t","i","c">>,
    <<"o","p","t","i","m","i","s","t","i","c">>,
    <<"h","o","p","e","f","u","l">>,
    <<"i","n","s","p","i","r","e","d">>,
    <<"m","o","t","i","v","a","t","e","d">>,
    <<"f","u","l","f","i","l","l","e","d">>
  >>

joy_context_boosters ==
  <<
    <<"t","o","d","a","y">>,
    <<"j","u","s","t">>,
    <<"f","i","n","a","l","l","y">>,
    <<"g","o","t">>,
    <<"r","e","c","e","i","v","e","d">>,
    <<"e","a","r","n","e","d">>,
    <<"d","e","s","e","r","v","e","d">>,
    <<"w","o","r","k","e","d"," ","h","a","r","d">>,
    <<"d","r","e","a","m"," ","c","o","m","e"," ","t","r","u","e">>,
    <<"m","i","r","a","c","l","e">>,
    <<"b","l","e","s","s","i","n","g">>,
    <<"g","i","f","t">>,
    <<"s","u","r","p","r","i","s","e">>,
    <<"u","n","e","x","p","e","c","t","e","d">>
  >>

fear_strong_keywords ==
  <<
    <<"t","e","r","r","i","f","i","e","d">>,
    <<"p","e","t","r","i","f","i","e","d">>,
    <<"h","o","r","r","i","f","i","e","d">>,
    <<"p","a","n","i","c">>,
    <<"t","e","r","r","o","r">>,
    <<"d","r","e","a","d">>,
    <<"a","l","a","r","m">>,
    <<"k","i","l","l","e","d">>,
    <<"k","i","l","l","i","n","g">>,
    <<"m","u","r","d","e","r">>,
    <<"d","e","a","d">>,
    <<"d","i","e">>,
    <<"d","e","a","t","h">>,
    <<"d","y","i","n","g">>,
    <<"c","o","r","p","s","e">>,
    <<"b","l","o","o","d">>,
    <<"g","o","r","e">>,
    <<"v","i","o","l","e","n","c","e">>,
    <<"a","t","t","a","c","k">>,
    <<"a","s","s","a","u","l","t">>,
    <<"t","h","r","e","a","t">>,
    <<"d","a","n","g","e","r","o","u","s">>,
    <<"s","c","a","r","y">>,
    <<"f","r","i","g","h","t","e","n","i","n","g">>,
    <<"s","p","o","o","k","y">>,
    <<"h","a","u","n","t","e","d">>,
    <<"g","h","o","s","t">>,
    <<"m","o","n","s","t","e","r">>,
    <<"n","i","g","h","t","m","a","r","e">>
  >>

fear_moderate_keywords ==
  <<
    <<"s","c","a","r","e","d">>,
    <<"a","f","r","a","i","d">>,
    <<"a","n","x","i","o","u","s">>,
    <<"w","o","r","r","i","e","d">>,
    <<"n","e","r","v","o","u","s">>,
    <<"f","e","a","r">>,
    <<"s","t","r","e","s","s">>,
    <<"s","t","r","e","s","s","e","d">>,
    <<"o","v","e","r","w","h","e","l","m","e","d">>,
    <<"d","r","e","a","d">>,
    <<"a","n","x","i","e","t","y">>,
    <<"u","n","e","a","s","y">>,
    <<"u","n","c","o","m","f","o","r","t","a","b","l","e">>,
    <<"t","e","n","s","e">>,
    <<"j","u","m","p","y">>,
    <<"p","a","r","a","n","o","i","d">>,
    <<"s","u","s","p","i","c","i","o","u","s">>,
    <<"c","a","u","t","i","o","u","s">>,
    <<"w","a","r","y">>,
    <<"h","e","s","i","t","a","n","t">>,
    <<"r","e","l","u","c","t","a","n","t">>,
    <<"t","i","m","i","d">>,
    <<"s","h","y">>,
    <<"i","n","t","i","m","i","d","a","t","e","d">>,
    <<"t","h","r","e","a","t","e","n","e","d">>,
    <<"v","u","l","n","e","r","a","b","l","e">>,
    <<"e","x","p","o","s","e","d">>,
    <<"u","n","s","a","f","e">>
  >>

fear_context_boosters ==
  <<
    <<"d","a","r","k">>,
    <<"n","i","g","h","t">>,
    <<"a","l","o","n","e">>,
    <<"s","t","r","a","n","g","e">>,
    <<"u","n","k","n","o","w","n">>,
    <<"u","n","f","a","m","i","l","i","a","r">>,
    <<"w","e","i","r","d">>,
    <<"o","d","d">>,
    <<"c","r","e","e","p","y">>,
    <<"e","e","r","i","e">>,
    <<"o","m","i","n","o","u","s">>,
    <<"f","o","r","e","b","o","d","i","n","g">>,
    <<"w","a","r","n","i","n","g">>,
    <<"c","a","u","t","i","o","n">>,
    <<"b","e","w","a","r","e">>
  >>

sadness_strong_keywords ==
  <<
    <<"d","e","v","a","s","t","a","t","e","d">>,
    <<"h","e","a","r","t","b","r","o","k","e","n">>,
    <<"d","e","p","r","e","s","s","e","d">>,
    <<"d","e","s","p","a","i","r">>,
    <<"g","r","i","e","f">>,
    <<"m","o","u","r","n","i","n","g">>,
    <<"c","r","u","s","h","e","d">>,
    <<"d","e","s","t","r","o","y","e","d">>,
    <<"r","u","i","n","e","d">>,
    <<"h","o","p","e","l","e","s","s">>,
    <<"h","e","l","p","l","e","s","s">>,
    <<"w","o","r","t","h","l","e","s","s">>,
    <<"u","s","e","l","e","s","s">>,
    <<"a","b","a","n","d","o","n","e","d">>,
    <<"r","e","j","e","c","t","e","d">>,
    <<"b","e","t","r","a","y","e","d">>,
    <<"c","h","e","a","t","e","d">>,
    <<"l","i","e","d"," ","t","o">>,
    <<"d","e","c","e","i","v","e","d">>,
    <<"f","o","o","l","e","d">>
  >>

sadness_moderate_keywords ==
  <<
    <<"s","a","d">>,
    <<"d","o","w","n">>,
    <<"l","o","n","e","l","y">>,
    <<"h","u","r","t">>,
    <<"b","r","o","k","e","n">>,
    <<"c","r","y","i","n","g">>,
    <<"t","e","a","r","s">>,
    <<"s","o","r","r","o","w">>,
    <<"m","e","l","a","n","c","h","o","l","y">>,
    <<"g","l","o","o","m","y">>,
    <<"l","o","s","t">>,
    <<"m","i","s","s">>,
    <<"a","l","o","n","e">>,
    <<"d","i","s","a","p","p","o","i","n","t","e","d">>,
    <<"l","e","t"," ","d","o","w","n">>,
    <<"u","p","s","e","t">>,
    <<"u","n","h","a","p","p","y">>,
    <<"m","i","s","e","r","a","b","l","e">>,
    <<"w","r","e","t","c","h","e","d">>,
    <<"p","i","t","i","f","u","l">>,
    <<"p","a","t","h","e","t","i","c">>,
    <<"h","o","p","e","l","e","s","s">>,
    <<"d","i","s","c","o","u","r","a","g","e","d">>,
    <<"d","i","s","h","e","a","r","t","e","n","e","d">>,
    <<"d","e","m","o","r","a","l","i","z","e","d">>,
    <<"d","e","f","e","a","t","e","d">>,
    <<"b","e","a","t","e","n">>,
    <<"c","r","u","s","h","e","d">>
  >>

sadness_context_boosters ==
  <<
    <<"n","e","v","e","r">>,
    <<"a","l","w","a","y","s">>,
    <<"f","o","r","e","v","e","r">>,
    <<"g","o","n","e">>,
    <<"l","o","s","t">>,
    <<"m","i","s","s","i","n","g">>,
    <<"e","m","p","t","y">>,
    <<"v","o","i","d">>,
    <<"m","e","a","n","i","n","g","l","e","s","s">>,
    <<"p","o","i","n","t","l","e","s","s">>,
    <<"u","s","e","l","e","s","s">>,
    <<"h","o","p","e","l","e","s","s">>,
    <<"h","e","l","p","l","e","s","s">>,
    <<"p","o","w","e","r","l","e","s","s">>
  >>

anger_strong_keywords ==
  <<
    <<"f","u","r","i","o","u","s">>,
    <<"r","a","g","e">>,
    <<"l","i","v","i","d">>,
    <<"e","n","r","a","g","e","d">>,
    <<"f","u","m","i","n","g">>,
    <<"h","a","t","e">>,
    <<"d","e","s","p","i","s","e">>,
    <<"d","i","s","g","u","s","t","e","d">>,
    <<"o","u","t","r","a","g","e","d">>,
    <<"i","n","c","e","n","s","e","d">>,
    <<"i","n","f","u","r","i","a","t","e","d">>,
    <<"i","r","a","t","e">>,
    <<"w","r","a","t","h","f","u","l">>,
    <<"v","e","n","g","e","f","u","l">>,
    <<"h","o","s","t","i","l","e">>,
    <<"a","g","g","r","e","s","s","i","v","e">>,
    <<"v","i","o","l","e","n","t">>,
    <<"d","e","s","t","r","u","c","t","i","v","e">>,
    <<"h","a","t","e","f","u","l">>,
    <<"s","p","i","t","e","f","u","l">>,
    <<"m","a","l","i","c","i","o","u","s">>
  >>

anger_moderate_keywords ==
  <<
    <<"a","n","g","r","y">>,
    <<"m","a","d">>,
    <<"f","r","u","s","t","r","a","t","e","d">>,
    <<"i","r","r","i","t","a","t","e","d">>,
    <<"a","n","n","o","y","e","d">>,
    <<"p","i","s","s","e","d">>,
    <<"u","p","s","e","t">>,
    <<"b","o","t","h","e","r","e","d">>,
    <<"r","e","s","e","n","t","m","e","n","t">>,
    <<"t","o","u","c","h","y">>,
    <<"s","e","n","s","i","t","i","v","e">>,
    <<"d","e","f","e","n","s","i","v","e">>,
    <<"p","r","o","t","e","c","t","i","v","e">>,
    <<"j","e","a","l","o","u","s">>,
    <<"e","n","v","i","o","u","s">>,
    <<"b","i","t","t","e","r">>,
    <<"c","y","n","i","c","a","l">>,
    <<"s","a","r","c","a","s","t","i","c">>,
    <<"m","o","c","k","i","n","g">>,
    <<"t","a","u","n","t","i","n","g">>
  >>

anger_context_boosters ==
  <<
    <<"b","o","s","s">>,
    <<"w","o","r","k">>,
    <<"s","t","u","p","i","d">>,
    <<"i","d","i","o","t">>,
    <<"d","a","m","n">>,
    <<"h","e","l","l">>,
    <<"f","u","c","k">>,
    <<"s","h","i","t">>,
    <<"b","i","t","c","h">>,
    <<"a","s","s","h","o","l","e">>,
    <<"j","e","r","k">>,
    <<"m","o","r","o","n">>,
    <<"f","o","o","l">>,
    <<"c","l","o","w","n">>,
    <<"j","o","k","e">>,
    <<"r","i","d","i","c","u","l","o","u","s">>,
    <<"a","b","s","u","r","d">>
  >>

love_strong_keywords ==
  <<
    <<"a","d","o","r","e">>,
    <<"w","o","r","s","h","i","p">>,
    <<"p","a","s","s","i","o","n","a","t","e">>,
    <<"d","e","v","o","t","e","d">>,
    <<"c","h","e","r","i","s","h">>,
    <<"t","r","e","a","s","u","r","e">>,
    <<"p","r","e","c","i","o","u","s">>,
    <<"b","e","l","o","v","e","d">>,
    <<"d","a","r","l","i","n","g">>,
    <<"s","w","e","e","t","h","e","a","r","t">>,
    <<"s","o","u","l","m","a","t","e">>,
    <<"t","r","u","e"," ","l","o","v","e">>,
    <<"e","t","e","r","n","a","l"," ","l","o","v","e">>,
    <<"u","n","c","o","n","d","i","t","i","o","n","a","l"," ","l","o","v","e">>,
    <<"p","u","r","e"," ","l","o","v","e">>,
    <<"d","e","e","p"," ","l","o","v","e">>,
    <<"i","n","t","e","n","s","e"," ","l","o","v","e">>,
    <<"b","u","r","n","i","n","g"," ","l","o","v","e">>
  >>

love_moderate_keywords ==
  <<
    <<"l","o","v","e">>,
    <<"r","o","m","a","n","c","e">>,
    <<"r","o","m","a","n","t","i","c">>,
    <<"c","r","u","s","h">>,
    <<"a","f","f","e","c","t","i","o","n">>,
    <<"v","a","l","e","n","t","i","n","e">>,
    <<"t","e","n","d","e","r">>,
    <<"b","e","l","o","v","e","d">>,
    <<"d","e","a","r">>,
    <<"s","w","e","e","t">>,
    <<"c","a","r","i","n","g">>,
    <<"n","u","r","t","u","r","i","n","g">>,
    <<"p","r","o","t","e","c","t","i","v","e">>,
    <<"s","u","p","p","o","r","t","i","v","e">>,
    <<"u","n","d","e","r","s","t","a","n","d","i","n","g">>,
    <<"c","o","m","p","a","s","s","i","o","n","a","t","e">>,
    <<"e","m","p","a","t","h","e","t","i","c">>,
    <<"s","y","m","p","a","t","h","e","t","i","c">>,
    <<"k","i","n","d">>,
    <<"g","e","n","t","l","e">>
  >>

love_context_boosters ==
  <<
    <<"h","u","g","g","e","d">>,
    <<"k","i","s","s","e","d">>,
    <<"m","a","r","r","i","e","d">>,
    <<"r","e","l","a","t","i","o","n","s","h","i","p">>,
    <<"t","o","g","e","t","h","e","r">>,
    <<"f","o","r","e","v","e","r">>,
    <<"a","l","w","a","y","s">>,
    <<"s","o","u","l">>,
    <<"h","e","a","r","t">>,
    <<"f","e","e","l","i","n","g","s">>,
    <<"e","m","o","t","i","o","n","s">>,
    <<"c","o","n","n","e","c","t","i","o","n">>,
    <<"b","o","n","d">>,
    <<"a","t","t","a","c","h","m","e","n","t">>
  >>

peace_strong_keywords ==
  <<
    <<"b","l","i","s","s","f","u","l">>,
    <<"s","e","r","e","n","e">>,
    <<"t","r","a","n","q","u","i","l">>,
    <<"z","e","n","l","i","k","e">>,
    <<"n","i","r","v","a","n","a">>,
    <<"e","n","l","i","g","h","t","e","n","m","e","n","t">>,
    <<"m","e","d","i","t","a","t","i","v","e">>,
    <<"c","o","n","t","e","m","p","l","a","t","i","v","e">>,
    <<"r","e","f","l","e","c","t","i","v","e">>,
    <<"m","i","n","d","f","u","l">>,
    <<"c","e","n","t","e","r","e","d">>,
    <<"b","a","l","a","n","c","e","d">>,
    <<"h","a","r","m","o","n","i","o","u","s">>,
    <<"u","n","i","f","i","e","d">>,
    <<"i","n","t","e","g","r","a","t","e","d">>,
    <<"w","h","o","l","e">>,
    <<"c","o","m","p","l","e","t","e">>,
    <<"f","u","l","f","i","l","l","e","d">>
  >>

peace_moderate_keywords ==
  <<
    <<"c","a","l","m">>,
    <<"p","e","a","c","e">>,
    <<"p","e","a","c","e","f","u","l">>,
    <<"r","e","l","a","x","e","d">>,
    <<"z","e","n">>,
    <<"m","e","d","i","t","a","t","i","o","n">>,
    <<"q","u","i","e","t">>,
    <<"s","t","i","l","l">>,
    <<"c","o","n","t","e","n","t">>,
    <<"b","a","l","a","n","c","e","d">>,
    <<"c","e","n","t","e","r","e","d">>,
    <<"m","i","n","d","f","u","l">>,
    <<"s","a","t","i","s","f","i","e","d">>,
    <<"f","u","l","f","i","l","l","e","d">>,
    <<"c","o","m","f","o","r","t","a","b","l","e">>,
    <<"a","t"," ","e","a","s","e">>,
    <<"u","n","w","o","r","r","i","e","d">>,
    <<"u","n","t","r","o","u","b","l","e","d">>,
    <<"u","n","c","o","n","c","e","r","n","e","d">>,
    <<"c","a","r","e","f","r","e","e">>
  >>

peace_context_boosters ==
  <<
    <<"f","i","n","a","l","l","y">>,
    <<"a","t"," ","l","a","s","t">>,
    <<"r","e","l","i","e","f">>,
    <<"r","e","s","o","l","v","e","d">>,
    <<"s","e","t","t","l","e","d">>,
    <<"f","i","n","i","s","h","e","d">>,
    <<"c","o","m","p","l","e","t","e">>,
    <<"d","o","n","e">>,
    <<"o","v","e","r">>,
    <<"p","a","s","t">>,
    <<"b","e","h","i","n","d">>,
    <<"f","o","r","g","o","t","t","e","n">>,
    <<"f","o","r","g","i","v","e","n">>,
    <<"a","c","c","e","p","t","e","d">>
  >>

neutral_strong_keywords ==
  <<
    <<"i","n","d","i","f","f","e","r","e","n","t">>,
    <<"a","p","a","t","h","e","t","i","c">>,
    <<"u","n","c","o","n","c","e","r","n","e","d">>,
    <<"u","n","i","n","t","e","r","e","s","t","e","d">>,
    <<"u","n","m","o","v","e","d">>,
    <<"u","n","a","f","f","e","c","t","e","d">>,
    <<"d","e","t","a","c","h","e","d">>,
    <<"d","i","s","c","o","n","n","e","c","t","e","d">>,
    <<"d","i","s","e","n","g","a","g","e","d">>,
    <<"u","n","i","n","v","o","l","v","e","d">>,
    <<"u","n","c","o","m","m","i","t","t","e","d">>,
    <<"n","e","u","t","r","a","l">>
  >>

neutral_moderate_keywords ==
  <<
    <<"o","k","a","y">>,
    <<"f","i","n","e">>,
    <<"a","l","r","i","g","h","t">>,
    <<"n","o","r","m","a","l">>,
    <<"a","v","e","r","a","g","e">>,
    <<"o","r","d","i","n","a","r","y">>,
    <<"r","e","g","u","l","a","r">>,
    <<"s","t","a","n","d","a","r","d">>,
    <<"t","y","p","i","c","a","l">>,
    <<"u","s","u","a","l">>,
    <<"c","o","m","m","o","n">>,
    <<"t","r","i","e","d">>,
    <<"a","t","t","e","m","p","t","e","d">>,
    <<"m","a","y","b","e">>,
    <<"p","o","s","s","i","b","l","y">>,
    <<"p","e","r","h","a","p","s">>,
    <<"p","r","o","b","a","b","l","y">>,
    <<"l","i","k","e","l","y">>,
    <<"u","n","l","i","k","e","l","y">>,
    <<"d","o","u","b","t","f","u","l">>,
    <<"u","n","c","e","r","t","a","i","n">>
  >>

neutral_context_boosters ==
  <<
    <<"w","h","a","t","e","v","e","r">>,
    <<"d","o","e","s","n","'","t"," ","m","a","t","t","e","r">>,
    <<"n","o","t"," ","s","u","r","e">>,
    <<"d","o","n","'","t"," ","k","n","o","w">>,
    <<"d","o","n","'","t"," ","c","a","r","e">>,
    <<"n","o"," ","o","p","i","n","i","o","n">>,
    <<"n","o"," ","p","r","e","f","e","r","e","n","c","e">>,
    <<"n","o"," ","f","e","e","l","i","n","g">>,
    <<"e","m","o","t","i","o","n","l","e","s","s">>,
    <<"n","u","m","b">>
  >>

sarcasm_indicators ==
  <<
    <<"y","e","a","h"," ","r","i","g","h","t">>,
    <<"s","u","r","e">>,
    <<"w","h","a","t","e","v","e","r">>,
    <<"o","b","v","i","o","u","s","l","y">>,
    <<"d","u","h">>
  >>

irony_indicators ==
  <<
    <<"g","r","e","a","t">>,
    <<"w","o","n","d","e","r","f","u","l">>,
    <<"f","a","n","t","a","s","t","i","c">>,
    <<"a","m","a","z","i","n","g">>,
    <<"p","e","r","f","e","c","t">>
  >>

negation_words ==
  <<
    <<"n","o","t">>,
    <<"n","o">>,
    <<"n","e","v","e","r">>,
    <<"n","o","n","e">>,
    <<"n","o","b","o","d","y">>,
    <<"n","o","t","h","i","n","g">>,
    <<"n","o","w","h","e","r","e">>
  >>

intensity_modifiers ==
  <<
    <<"v","e","r","y">>,
    <<"e","x","t","r","e","m","e","l","y">>,
    <<"r","e","a","l","l","y">>,
    <<"s","o">>,
    <<"t","o","o">>,
    <<"q","u","i","t","e">>,
    <<"r","a","t","h","e","r">>
  >>

(***************************************************************************)
(* Lexicon table, in dict insertion order.                                 *)
(***************************************************************************)
EmotionOrder == <<"joy", "fear", "sadness", "anger", "love", "peace", "neutral">>

Emotions == {EmotionOrder[i] : i \in 1..Len(EmotionOrder)}

emotion_data ==
  [ joy     |-> [strong_keywords   |-> joy_strong_keywords,
                 moderate_keywords |-> joy_moderate_keywords,
                 context_boosters  |-> joy_context_boosters,
                 color |-> "#ffb000", base_intensity |-> 800],
    fear    |-> [strong_keywords   |-> fear_strong_keywords,
                 moderate_keywords |-> fear_moderate_keywords,
                 context_boosters  |-> fear_context_boosters,
                 color |-> "#b644ff", base_intensity |-> 800],
    sadness |-> [strong_keywords   |-> sadness_strong_keywords,
                 moderate_keywords |-> sadness_moderate_keywords,
                 context_boosters  |-> sadness_context_boosters,
                 color |-> "#4a9eff", base_intensity |-> 800],
    anger   |-> [strong_keywords   |-> anger_strong_keywords,
                 moderate_keywords |-> anger_moderate_keywords,
                 context_boosters  |-> anger_context_boosters,
                 color |-> "#ff4757", base_intensity |-> 900],
    love    |-> [strong_keywords   |-> love_strong_keywords,
                 moderate_keywords |-> love_moderate_keywords,
                 context_boosters  |-> love_context_boosters,
                 color |-> "#ff6b9d", base_intensity |-> 700],
    peace   |-> [strong_keywords   |-> peace_strong_keywords,
                 moderate_keywords |-> peace_moderate_keywords,
                 context_boosters  |-> peace_context_boosters,
                 color |-> "#00ff88", base_intensity |-> 600],
    neutral |-> [strong_keywords   |-> neutral_strong_keywords,
                 moderate_keywords |-> neutral_moderate_keywords,
                 context_boosters  |-> neutral_context_boosters,
                 color |-> "#808080", base_intensity |-> 500] ]

(***************************************************************************)
(* String primitives of the Python runtime used by the scorer.             *)
(***************************************************************************)
UpperCase == <<"A","B","C","D","E","F","G","H","I","J","K","L","M",
               "N","O","P","Q","R","S","T","U","V","W","X","Y","Z">>

LowerCase == <<"a","b","c","d","e","f","g","h","i","j","k","l","m",
               "n","o","p","q","r","s","t","u","v","w","x","y","z">>

Whitespace == {" ", "\t", "\n"}

\* str.lower() on one character
lower_char(c) ==
  IF \E i \in 1..Len(UpperCase) : UpperCase[i] = c
    THEN LowerCase[CHOOSE i \in 1..Len(UpperCase) : UpperCase[i] = c]
    ELSE c

\* str.lower()
lower(s) == [i \in 1..Len(s) |-> lower_char(s[i])]

RECURSIVE lstrip(_)
lstrip(s) ==
  IF s # <<>> /\ Head(s) \in Whitespace THEN lstrip(Tail(s)) ELSE s

RECURSIVE rstrip(_)
rstrip(s) ==
  IF s # <<>> /\ s[Len(s)] \in Whitespace
    THEN rstrip(SubSeq(s, 1, Len(s) - 1))
    ELSE s

\* str.strip()
strip(s) == rstrip(lstrip(s))

\* Python `kw in s` on strings: kw occurs in s as a contiguous substring
Contains(kw, s) ==
  \E i \in 1..(Len(s) - Len(kw) + 1) :
     \A j \in 1..Len(kw) : s[i + j - 1] = kw[j]

\* any(word in s for word in words)
ContainsAny(words, s) == \E i \in 1..Len(words) : Contains(words[i], s)

\* the sub-list of keywords found in s, in list order
Matched(keywords, s) == SelectSeq(keywords, LAMBDA kw : Contains(kw, s))

\* f"strong: {keyword}" and f"moderate: {keyword}"
strong_tag == <<"s","t","r","o","n","g",":"," ">>

moderate_tag == <<"m","o","d","e","r","a","t","e",":"," ">>

\* the matches without their tier tag
Tagged_untagged(tag, keywords) == keywords

Tagged(tag, keywords) == [i \in 1..Len(keywords) |-> tag \o keywords[i]]

Min(a, b) == IF a < b THEN a ELSE b

(***************************************************************************)
(* EmotionAnalysisService: override triggers.                              *)
(***************************************************************************)
_is_sarcastic(s) == ContainsAny(sarcasm_indicators, s)

_has_negation(s) == ContainsAny(negation_words, s)

_handle_sarcasm(s) ==
  [emotion |-> "neutral", color |-> "#808080", intensity |-> 600, confidence |-> 700,
   insights |-> << <<"Sarcasm detected - emotion may be opposite of literal meaning">> >>,
   recommendations |-> <<"Consider the context and tone of your message">>,
   matches |-> << <<"s","a","r","c","a","s","m","_","d","e","t","e","c","t","e","d">> >>]

_handle_negation(s) ==
  [emotion |-> "neutral", color |-> "#808080", intensity |-> 500, confidence |-> 600,
   insights |-> << <<"Negation detected - emotion meaning may be reversed">> >>,
   recommendations |-> <<"Try expressing your feelings without negative words">>,
   matches |-> << <<"n","e","g","a","t","i","o","n","_","d","e","t","e","c","t","e","d">> >>]

\* the default response with confidence 0.5
DefaultNeutral_half ==
  [emotion |-> "neutral", color |-> "#808080", intensity |-> 500, confidence |-> 500,
   insights |-> << <<"No strong emotional indicators detected">> >>,
   recommendations |-> <<"Try expressing your feelings more specifically">>,
   matches |-> <<>>]

DefaultNeutral ==
  [emotion |-> "neutral", color |-> "#808080", intensity |-> 500, confidence |-> 600,
   insights |-> << <<"No strong emotional indicators detected">> >>,
   recommendations |-> <<"Try expressing your feelings more specifically">>,
   matches |-> <<>>]

(***************************************************************************)
(* EmotionAnalysisService._generate_recommendations                        *)
(***************************************************************************)
work_words == << <<"w","o","r","k">>, <<"j","o","b">>, <<"b","o","s","s">>,
                 <<"c","a","r","e","e","r">> >>

relationship_words == << <<"r","e","l","a","t","i","o","n","s","h","i","p">>,
                         <<"f","r","i","e","n","d">>, <<"f","a","m","i","l","y">> >>

health_words == << <<"h","e","a","l","t","h">>, <<"s","i","c","k">>,
                   <<"d","o","c","t","o","r">> >>

EmotionRecommendations(emotion, intensity) ==
  CASE emotion = "sadness" ->
         IF intensity > 800
           THEN <<"Consider reaching out to a trusted friend or counselor for support",
                  "Allow yourself to feel these emotions - they are valid and temporary">>
           ELSE <<"Try engaging in a comforting activity like listening to music or taking a walk",
                  "Practice self-compassion and remember that difficult feelings pass">>
    [] emotion = "anger" ->
         IF intensity > 800
           THEN <<"Take several deep breaths and step away from the situation if possible",
                  "Consider writing down your feelings before taking any action">>
           ELSE <<"Try to identify the root cause of your frustration",
                  "Channel this energy into something constructive">>
    [] emotion = "fear" ->
         IF intensity > 800
           THEN <<"Focus on what you can control in this moment",
                  "Try grounding techniques: name 5 things you can see, 4 you can touch">>
           ELSE <<"Break down your concerns into smaller, manageable parts",
                  "Consider talking to someone about what's worrying you">>
    [] emotion = "joy" ->
         <<"Share this positive energy with someone you care about",
           "Take a moment to savor and remember this feeling">>
    [] emotion = "love" ->
         <<"Express your feelings to the person who matters to you",
           "Consider creative ways to show your appreciation">>
    [] emotion = "peace" ->
         <<"Use this calm state for reflection or planning",
           "Consider what led to this peaceful feeling to recreate it later">>
    [] OTHER -> <<>>

_generate_recommendations(emotion, intensity, t) ==
  LET text_lower == lower(t)
      recommendations ==
        EmotionRecommendations(emotion, intensity)
        \o (IF ContainsAny(work_words, text_lower)
              THEN <<"Remember to maintain work-life balance and take breaks when needed">>
              ELSE <<>>)
        \o (IF ContainsAny(relationship_words, text_lower)
              THEN <<"Open and honest communication strengthens relationships">>
              ELSE <<>>)
        \o (IF ContainsAny(health_words, text_lower)
              THEN <<"Prioritize your physical and mental wellbeing">>
              ELSE <<>>)
  IN  SubSeq(recommendations, 1, Min(3, Len(recommendations)))

(***************************************************************************)
(* EmotionAnalysisService.analyze_emotion: keyword scoring.                *)
(***************************************************************************)
StrongWeight == 4

ModerateWeight == 2

\* score after the strong and moderate keyword loops
keyword_score(e, s) ==
  StrongWeight * Len(Matched(emotion_data[e].strong_keywords, s))
  + ModerateWeight * Len(Matched(emotion_data[e].moderate_keywords, s))

\* the booster loop without its `score > 0` condition
context_boost_unguarded(e, s, score) ==
  Len(Matched(emotion_data[e].context_boosters, s))

\* the booster loop: `if booster in text_lower and score > 0: context_boost += 1.0`
context_boost(e, s, score) ==
  IF score > 0 THEN Len(Matched(emotion_data[e].context_boosters, s)) ELSE 0

total_score(e, s) ==
  LET score == keyword_score(e, s) IN score + context_boost(e, s, score)

\* the confidence without its 0.98 cap
confidence_of_uncapped(total) == 400 + total * 120

\* min(0.98, 0.4 + total_score * 0.12)
confidence_of(total) == Min(980, 400 + total * 120)

\* min(1.0, base_intensity + total_score * 0.08)
intensity_of(e, total) == Min(1000, emotion_data[e].base_intensity + total * 80)

\* the emotion_scores dict: one entry per emotion with total_score > 0
emotion_scores(s) ==
  LET totals == [e \in Emotions |-> total_score(e, s)]
  IN  [e \in {x \in Emotions : totals[x] > 0} |->
         [score      |-> totals[e],
          confidence |-> confidence_of(totals[e]),
          intensity  |-> intensity_of(e, totals[e]),
          color      |-> emotion_data[e].color,
          matches    |-> Tagged(strong_tag, Matched(emotion_data[e].strong_keywords, s))
                         \o Tagged(moderate_tag, Matched(emotion_data[e].moderate_keywords, s))]]

\* keys of emotion_scores in insertion order
scored_names(scores) == SelectSeq(EmotionOrder, LAMBDA e : e \in DOMAIN scores)

\* insert name x in front of the first element whose score is not greater
RECURSIVE insert_desc(_, _, _)
insert_desc(x, sorted, scores) ==
  IF sorted = <<>> THEN <<x>>
  ELSE IF scores[Head(sorted)].score <= scores[x].score
         THEN <<x>> \o sorted
         ELSE <<Head(sorted)>> \o insert_desc(x, Tail(sorted), scores)

\* sorted(emotion_scores.items(), key=score, reverse=True): stable, so equal
\* scores keep insertion order
RECURSIVE sorted_desc(_, _)
sorted_desc(names, scores) ==
  IF names = <<>> THEN <<>>
  ELSE insert_desc(Head(names), sorted_desc(Tail(names), scores), scores)

sorted_emotions(scores) == sorted_desc(scored_names(scores), scores)

\* the tie-break margin of `abs(primary - second) < 1.0`
TieMargin == 1

Abs(n) == IF n < 0 THEN -n ELSE n

\* the top-ranked emotion without the close-second check
primary_emotion_no_swap(scores) == sorted_emotions(scores)[1]

\* the close-second check extended to every emotion tied with the top-ranked
\* one: the most intense of them, the earliest on equal intensity
primary_emotion_any_tied(scores) ==
  LET sorted == sorted_emotions(scores)
      tied   == SelectSeq(sorted, LAMBDA e :
                  Abs(scores[sorted[1]].score - scores[e].score) < TieMargin)
      best   == CHOOSE i \in 1..Len(tied) :
                  /\ \A j \in 1..Len(tied) : scores[tied[j]].intensity <= scores[tied[i]].intensity
                  /\ \A j \in 1..(i - 1) : scores[tied[j]].intensity < scores[tied[i]].intensity
  IN  tied[best]

\* lines 261-268: top-ranked emotion, swapped for a close and more intense runner-up
primary_emotion(scores) ==
  LET sorted == sorted_emotions(scores)
      first  == sorted[1]
  IN  IF Len(sorted) > 1
         /\ Abs(scores[first].score - scores[sorted[2]].score) < TieMargin
         /\ scores[sorted[2]].intensity > scores[first].intensity
        THEN sorted[2]
        ELSE first

\* f"{len(emotion_scores)}"
CountStr == <<"1", "2", "3", "4", "5", "6", "7">>

\* lines 270-279
scored_insights(name, confidence, nscored) ==
  (IF confidence > 900 THEN << <<"Very strong", name, "indicators detected">> >>
   ELSE IF confidence > 800 THEN << <<"Strong", name, "indicators detected">> >>
   ELSE IF confidence > 700 THEN << <<"Moderate", name, "indicators detected">> >>
   ELSE <<>>)
  \o (IF nscored > 1
        THEN << <<"Mixed emotions detected:", CountStr[nscored], "different states">> >>
        ELSE <<>>)

\* the scored branch and the default neutral response (lines 224-300)
score_keywords(t, text_lower) ==
  LET scores == emotion_scores(text_lower)
  IN  IF DOMAIN scores # {}
        THEN LET name == primary_emotion(scores)
                 data == scores[name]
             IN  [emotion |-> name,
                  color |-> data.color,
                  intensity |-> data.intensity,
                  confidence |-> data.confidence,
                  insights |-> scored_insights(name, data.confidence, Cardinality(DOMAIN scores)),
                  recommendations |-> _generate_recommendations(name, data.intensity, t),
                  matches |-> data.matches]
        ELSE DefaultNeutral

\* the override checks in the opposite order
analyze_emotion_negation_first(t) ==
  LET text_lower == strip(lower(t))
  IN  IF _has_negation(text_lower) THEN _handle_negation(text_lower)
      ELSE IF _is_sarcastic(text_lower) THEN _handle_sarcasm(text_lower)
      ELSE score_keywords(t, text_lower)

analyze_emotion(t) ==
  LET text_lower == strip(lower(t))
  IN  IF _is_sarcastic(text_lower) THEN _handle_sarcasm(text_lower)
      ELSE IF _has_negation(text_lower) THEN _handle_negation(text_lower)
      ELSE score_keywords(t, text_lower)

(***************************************************************************)
(* Input texts: up to MaxWords words of Vocabulary joined by single        *)
(* spaces.  The words are chosen to hit every tier of the lexicon, both    *)
(* override triggers, upper case, and words that belong to two emotions.   *)
(***************************************************************************)
MaxWords == 2

Vocabulary ==
  << <<"e","c","s","t","a","t","i","c">>,        \* joy strong
     <<"h","a","p","p","y">>,                    \* joy moderate
     <<"j","u","s","t">>,                        \* joy booster
     <<"f","u","r","i","o","u","s">>,            \* anger strong
     <<"u","p","s","e","t">>,                    \* sadness moderate and anger moderate
     <<"b","o","s","s">>,                        \* anger booster, work word
     <<"o","k","a","y">>,                        \* neutral moderate
     <<"n","u","m","b">>,                        \* neutral booster
     <<"n","e","u","t","r","a","l">>,            \* neutral strong
     <<"w","h","a","t","e","v","e","r">>,        \* sarcasm indicator, neutral booster
     <<"S","u","r","e">>,                        \* sarcasm indicator once lowered
     <<"n","o","t">>,                            \* negation word
     <<"u","n","k","n","o","w","n">>,            \* fear booster that contains "no"
     <<"b","l","i","s","s","f","u","l">>,        \* joy strong and peace strong
     <<"s","i","c","k">> >>                      \* health word, no lexicon entry

RECURSIVE Join(_)
Join(ws) ==
  IF Len(ws) = 0 THEN <<>>
  ELSE IF Len(ws) = 1 THEN Vocabulary[ws[1]]
  ELSE Vocabulary[ws[1]] \o <<" ">> \o Join(Tail(ws))

Texts ==
  {Join(ws) : ws \in UNION {[1..n -> 1..Len(Vocabulary)] : n \in 1..MaxWords}}

\* analyze_emotion tabulated over the input texts
ScorerTable == [t \in Texts |-> analyze_emotion(t)]

(***************************************************************************)
(* ContextWindowAnalyzer (context_analyzer.py).  A deque is a sequence     *)
(* whose head is the left end.  None is the string "None".                 *)
(***************************************************************************)
window_size == 5

intensifiers ==
  <<
    [modifier |-> <<"v","e","r","y">>, multiplier |-> 15],
    [modifier |-> <<"e","x","t","r","e","m","e","l","y">>, multiplier |-> 20],
    [modifier |-> <<"r","e","a","l","l","y">>, multiplier |-> 13],
    [modifier |-> <<"s","o">>, multiplier |-> 14],
    [modifier |-> <<"t","o","o">>, multiplier |-> 16],
    [modifier |-> <<"q","u","i","t","e">>, multiplier |-> 12],
    [modifier |-> <<"r","a","t","h","e","r">>, multiplier |-> 11],
    [modifier |-> <<"s","o","m","e","w","h","a","t">>, multiplier |-> 8]
  >>

diminishers ==
  <<
    [modifier |-> <<"s","l","i","g","h","t","l","y">>, multiplier |-> 7],
    [modifier |-> <<"a"," ","l","i","t","t","l","e">>, multiplier |-> 6],
    [modifier |-> <<"s","o","m","e","w","h","a","t">>, multiplier |-> 8],
    [modifier |-> <<"k","i","n","d"," ","o","f">>, multiplier |-> 7],
    [modifier |-> <<"s","o","r","t"," ","o","f">>, multiplier |-> 7],
    [modifier |-> <<"m","a","y","b","e">>, multiplier |-> 5]
  >>

negators ==
  <<
    [modifier |-> <<"n","o","t">>, multiplier |-> -10],
    [modifier |-> <<"n","o">>, multiplier |-> -10],
    [modifier |-> <<"n","e","v","e","r">>, multiplier |-> -15],
    [modifier |-> <<"n","o","n","e">>, multiplier |-> -10],
    [modifier |-> <<"n","o","b","o","d","y">>, multiplier |-> -10],
    [modifier |-> <<"n","o","t","h","i","n","g">>, multiplier |-> -10],
    [modifier |-> <<"n","o","w","h","e","r","e">>, multiplier |-> -10]
  >>

emotional_context ==
  <<
    [domain |-> "work_context",
     keywords |-> << <<"b","o","s","s">>, <<"w","o","r","k">>, <<"j","o","b">>, <<"c","a","r","e","e","r">>, <<"o","f","f","i","c","e">>, <<"m","e","e","t","i","n","g">>, <<"d","e","a","d","l","i","n","e">> >>],
    [domain |-> "relationship_context",
     keywords |-> << <<"b","o","y","f","r","i","e","n","d">>, <<"g","i","r","l","f","r","i","e","n","d">>, <<"s","p","o","u","s","e">>, <<"p","a","r","t","n","e","r">>, <<"f","a","m","i","l","y">>, <<"f","r","i","e","n","d">> >>],
    [domain |-> "health_context",
     keywords |-> << <<"d","o","c","t","o","r">>, <<"h","o","s","p","i","t","a","l">>, <<"s","i","c","k">>, <<"p","a","i","n">>, <<"m","e","d","i","c","i","n","e">>, <<"t","r","e","a","t","m","e","n","t">> >>],
    [domain |-> "financial_context",
     keywords |-> << <<"m","o","n","e","y">>, <<"b","i","l","l","s">>, <<"d","e","b","t">>, <<"s","a","l","a","r","y">>, <<"e","x","p","e","n","s","e","s">>, <<"b","u","d","g","e","t">> >>],
    [domain |-> "social_context",
     keywords |-> << <<"p","a","r","t","y">>, <<"e","v","e","n","t">>, <<"c","e","l","e","b","r","a","t","i","o","n">>, <<"g","a","t","h","e","r","i","n","g">>, <<"s","o","c","i","a","l">>, <<"p","e","o","p","l","e">> >>]
  >>

emotional_words ==
  << <<"f","e","e","l">>,
     <<"f","e","e","l","i","n","g">>,
     <<"e","m","o","t","i","o","n">>,
     <<"e","m","o","t","i","o","n","a","l">>,
     <<"m","o","o","d">>,
     <<"a","t","t","i","t","u","d","e">>,
     <<"r","e","a","c","t","i","o","n">>,
     <<"r","e","s","p","o","n","s","e">>,
     <<"e","x","p","e","r","i","e","n","c","e">>,
     <<"s","e","n","s","a","t","i","o","n">> >>

\* one loop of _analyze_current_text over a context_patterns table
modifier_hits(table, type, text_lower) ==
  LET hits == SelectSeq(table, LAMBDA m : Contains(m.modifier, text_lower))
  IN  [i \in 1..Len(hits) |->
         [modifier |-> hits[i].modifier, multiplier |-> hits[i].multiplier, type |-> type]]

_analyze_current_text(t) ==
  LET text_lower == lower(t)
      domains == SelectSeq(emotional_context,
                           LAMBDA d : ContainsAny(d.keywords, text_lower))
  IN  [immediate_emotion   |-> "None",
       intensity_modifiers |-> modifier_hits(intensifiers, "intensifier", text_lower)
                               \o modifier_hits(diminishers, "diminisher", text_lower)
                               \o modifier_hits(negators, "negator", text_lower),
       context_domains     |-> [i \in 1..Len(domains) |-> domains[i].domain],
       emotional_indicators |-> Matched(emotional_words, text_lower)]

\* "happy" and "boss furious": the texts sent to the context analyzer
ContextTexts == {Join(<<2>>), Join(<<6, 4>>)}

\* _analyze_current_text tabulated over ContextTexts
CurrentTextTable == [t \in ContextTexts |-> _analyze_current_text(t)]

\* self._analyze_current_text(text), by table where the table has the text
current_text(t) ==
  IF t \in ContextTexts THEN CurrentTextTable[t] ELSE _analyze_current_text(t)

\* list(history)[-self.window_size:]
LastN(s, n) == IF Len(s) <= n THEN s ELSE SubSeq(s, Len(s) - n + 1, Len(s))

Range(s) == {s[i] : i \in 1..Len(s)}

escalation_patterns ==
  << <<"neutral", "sadness", "anger">>,
     <<"joy", "excitement", "ecstasy">>,
     <<"fear", "panic", "terror">> >>

deescalation_patterns ==
  << <<"anger", "sadness", "neutral">>,
     <<"ecstasy", "joy", "peace">>,
     <<"terror", "fear", "anxiety">> >>

\* the pattern compared with the first emotions instead of the last
_matches_pattern_head(emotions, pattern) ==
  IF Len(emotions) < Len(pattern) THEN FALSE
  ELSE SubSeq(emotions, 1, Len(pattern)) = pattern

_matches_pattern(emotions, pattern) ==
  IF Len(emotions) < Len(pattern) THEN FALSE
  ELSE SubSeq(emotions, Len(emotions) - Len(pattern) + 1, Len(emotions)) = pattern

\* the first pattern of the list that the emotions match, if any
FirstMatch(patterns, emotions) ==
  LET hits == SelectSeq(patterns, LAMBDA p : _matches_pattern(emotions, p))
  IN  IF hits = <<>> THEN <<>> ELSE <<hits[1]>>

\* _analyze_context_window with the volatility check made before the
\* de-escalation patterns
_analyze_context_window_volatile_first(t, history) ==
  IF history = <<>>
    THEN [context_emotion |-> "None", context_trend |-> "neutral"]
    ELSE
      LET recent == LastN(history, window_size)
          recent_emotions == [i \in 1..Len(recent) |-> recent[i].emotion]
          last == recent_emotions[Len(recent_emotions)]
          esc == IF Len(recent_emotions) >= 2
                   THEN FirstMatch(escalation_patterns, recent_emotions) ELSE <<>>
          deesc == IF Len(recent_emotions) >= 2
                     THEN FirstMatch(deescalation_patterns, recent_emotions) ELSE <<>>
      IN  IF esc # <<>>
            THEN [context_emotion |-> last, context_trend |-> "escalating",
                  pattern |-> esc[1]]
          ELSE IF Cardinality(Range(recent_emotions)) >= 3
            THEN [context_emotion |-> last, context_trend |-> "volatile",
                  pattern |-> recent_emotions]
          ELSE IF deesc # <<>>
            THEN [context_emotion |-> last, context_trend |-> "de-escalating",
                  pattern |-> deesc[1]]
          ELSE IF Cardinality(Range(recent_emotions)) = 1
            THEN [context_emotion |-> recent_emotions[1], context_trend |-> "stable",
                  pattern |-> recent_emotions]
          ELSE [context_emotion |-> last, context_trend |-> "mixed",
                pattern |-> recent_emotions]

_analyze_context_window(t, history) ==
  IF history = <<>>
    THEN [context_emotion |-> "None", context_trend |-> "neutral"]
    ELSE
      LET recent == LastN(history, window_size)
          recent_emotions == [i \in 1..Len(recent) |-> recent[i].emotion]
          last == recent_emotions[Len(recent_emotions)]
          esc == IF Len(recent_emotions) >= 2
                   THEN FirstMatch(escalation_patterns, recent_emotions) ELSE <<>>
          deesc == IF Len(recent_emotions) >= 2
                     THEN FirstMatch(deescalation_patterns, recent_emotions) ELSE <<>>
      IN  IF esc # <<>>
            THEN [context_emotion |-> last, context_trend |-> "escalating",
                  pattern |-> esc[1]]
          ELSE IF deesc # <<>>
            THEN [context_emotion |-> last, context_trend |-> "de-escalating",
                  pattern |-> deesc[1]]
          ELSE IF Cardinality(Range(recent_emotions)) = 1
            THEN [context_emotion |-> recent_emotions[1], context_trend |-> "stable",
                  pattern |-> recent_emotions]
          ELSE IF Cardinality(Range(recent_emotions)) >= 3
            THEN [context_emotion |-> last, context_trend |-> "volatile",
                  pattern |-> recent_emotions]
          ELSE [context_emotion |-> last, context_trend |-> "mixed",
                pattern |-> recent_emotions]

\* dict.get(key, default) on a record
Get(d, key, default) == IF key \in DOMAIN d THEN d[key] ELSE default

_analyze_user_patterns(patterns, t, user_id) ==
  IF user_id \notin DOMAIN patterns
    THEN [user_pattern |-> "None", emotional_baseline |-> "neutral"]
    ELSE LET user_data == patterns[user_id]
         IN  [user_pattern |-> "known_user",
              emotional_baseline |-> Get(user_data, "emotional_baseline", "neutral"),
              typical_responses  |-> Get(user_data, "typical_responses", <<>>),
              emotional_triggers |-> Get(user_data, "emotional_triggers", <<>>)]

positive_transitions ==
  {<<"sadness", "joy">>, <<"fear", "peace">>, <<"anger", "calm">>}

negative_transitions ==
  {<<"joy", "sadness">>, <<"peace", "fear">>, <<"calm", "anger">>}

_analyze_emotional_transitions(t, history) ==
  IF history = <<>>
    THEN [transition_type |-> "new_conversation", emotional_flow |-> "stable"]
    ELSE
      LET recent_states == LastN(history, window_size)
          transitions == [i \in 1..(Len(recent_states) - 1) |->
                            <<recent_states[i].emotion, recent_states[i + 1].emotion>>]
          positive_count ==
            Cardinality({i \in 1..Len(transitions) : transitions[i] \in positive_transitions})
          negative_count ==
            Cardinality({i \in 1..Len(transitions) : transitions[i] \in negative_transitions})
      IN  [transition_type |->
             IF positive_count > negative_count THEN "positive_trend"
             ELSE IF negative_count > positive_count THEN "negative_trend"
             ELSE "mixed_trend",
           emotional_flow |-> IF Len(transitions) > 2 THEN "flowing" ELSE "stable",
           transition_count |-> Len(transitions),
           positive_transitions |-> positive_count,
           negative_transitions |-> negative_count]

EscalationAdvice == "Emotional escalation detected - consider de-escalation techniques"

_combine_analyses(current, context, user, transition) ==
  [text_analysis       |-> current,
   context_analysis    |-> context,
   user_analysis       |-> user,
   transition_analysis |-> transition,
   recommendations     |->
     (IF Get(context, "context_trend", "None") = "escalating"
        THEN <<EscalationAdvice>> ELSE <<>>)
     \o (IF Get(context, "context_trend", "None") = "volatile"
           THEN <<"Emotional volatility detected - consider grounding exercises">>
           ELSE <<>>)
     \o (IF Get(transition, "transition_type", "None") = "negative_trend"
           THEN <<"Negative emotional trend detected - consider positive interventions">>
           ELSE <<>>)
     \o (IF "work_context" \in Range(Get(current, "context_domains", <<>>))
           THEN <<"Work-related context detected - consider work-life balance">>
           ELSE <<>>)
     \o (IF "health_context" \in Range(Get(current, "context_domains", <<>>))
           THEN <<"Health-related context detected - consider professional support">>
           ELSE <<>>)]

\* self.conversation_history[conversation_id] on the defaultdict
history_of(histories, conversation_id) ==
  IF conversation_id \in DOMAIN histories THEN histories[conversation_id] ELSE <<>>

\* the entry built by _update_history (lines 296-301)
history_entry(t, analysis, now) ==
  [text      |-> t,
   emotion   |-> Get(analysis, "emotion", "neutral"),
   timestamp |-> now,
   analysis  |-> analysis]

\* append, then pop() (the newest entry) when longer than window_size
append_bounded_pop_right(history, entry) ==
  LET appended == Append(history, entry)
  IN  IF Len(appended) > window_size
        THEN SubSeq(appended, 1, Len(appended) - 1) ELSE appended

\* append, then popleft when longer than window_size (lines 303-307)
append_bounded(history, entry) ==
  LET appended == Append(history, entry)
  IN  IF Len(appended) > window_size THEN Tail(appended) ELSE appended

\* _update_history keeping one history for all conversations, under the
\* default key
_update_history_shared(histories, conversation_id, t, analysis, now) ==
  ("default" :> append_bounded(history_of(histories, conversation_id),
                               history_entry(t, analysis, now)))
  @@ histories

_update_history(histories, conversation_id, t, analysis, now) ==
  (conversation_id :> append_bounded(history_of(histories, conversation_id),
                                     history_entry(t, analysis, now)))
  @@ histories

\* the value analyze_context returns (lines 53-70)
analyze_context(histories, patterns, t, user_id, conversation_id) ==
  LET history == history_of(histories, conversation_id)
  IN  _combine_analyses(current_text(t),
                        _analyze_context_window(t, history),
                        _analyze_user_patterns(patterns, t, user_id),
                        _analyze_emotional_transitions(t, history))

(***************************************************************************)
(* HybridEmotionDetector.analyze_emotion_hybrid (ml_emotion_detector.py).  *)
(* ml_result is what predict_emotion_ml returned; the classifier itself    *)
(* is outside the model and its answer is an input.                        *)
(***************************************************************************)
\* f"{x:.2f}" for a confidence that is a whole number of hundredths
Fmt2(x) == x \div 10

\* rule_confidence * 0.6 + ml_confidence * 0.4
combined_confidence(rule_confidence, ml_confidence) ==
  (6 * rule_confidence + 4 * ml_confidence) \div 10

\* the choice without the agreement branch of lines 259-262
final_choice_no_agreement(rule_based_result, ml_result, rule_confidence, ml_confidence) ==
  IF rule_confidence > ml_confidence
    THEN <<rule_based_result.emotion, "rule_based">>
  ELSE <<ml_result.emotion, "ml_based">>

\* lines 259-270: <<final_emotion, method>>
final_choice(rule_based_result, ml_result, rule_confidence, ml_confidence) ==
  IF rule_confidence > 800 /\ ml_confidence > 700
    THEN <<rule_based_result.emotion, "hybrid_agreement">>
  ELSE IF rule_confidence > ml_confidence
    THEN <<rule_based_result.emotion, "rule_based">>
  ELSE <<ml_result.emotion, "ml_based">>

\* lines 273-290
hybrid_insights(rule_based_result, rule_confidence, ml_confidence) ==
  Get(rule_based_result, "insights", <<>>)
  \o (IF rule_confidence > 800
        THEN << <<"Rule-based detection: Very confident", Fmt2(rule_confidence)>> >>
      ELSE IF rule_confidence > 600
        THEN << <<"Rule-based detection: Confident", Fmt2(rule_confidence)>> >>
      ELSE <<>>)
  \o (IF ml_confidence > 800
        THEN << <<"ML detection: Very confident", Fmt2(ml_confidence)>> >>
      ELSE IF ml_confidence > 600
        THEN << <<"ML detection: Confident", Fmt2(ml_confidence)>> >>
      ELSE <<>>)
  \o (IF Abs(rule_confidence - ml_confidence) < 100
        THEN << <<"Both detection methods agree">> >>
        ELSE << <<"Detection methods differ: Rule-based vs ML",
                  Fmt2(rule_confidence), Fmt2(ml_confidence)>> >>)

\* analyze_emotion_hybrid giving the result the lexicon color of the
\* emotion it returns
analyze_emotion_hybrid_recolored(t, rule_based_result, ml_result) ==
  LET rule_confidence == Get(rule_based_result, "confidence", 500)
      ml_confidence   == Get(ml_result, "confidence", 500)
      choice == final_choice(rule_based_result, ml_result, rule_confidence, ml_confidence)
  IN  [emotion         |-> choice[1],
       color           |-> IF choice[1] \in Emotions THEN emotion_data[choice[1]].color
                                                      ELSE "#808080",
       intensity       |-> Get(rule_based_result, "intensity", 500),
       confidence      |-> combined_confidence(rule_confidence, ml_confidence),
       insights        |-> hybrid_insights(rule_based_result, rule_confidence, ml_confidence),
       recommendations |-> Get(rule_based_result, "recommendations", <<>>),
       matches         |-> Get(rule_based_result, "matches", <<>>),
       method          |-> choice[2],
       rule_based_result |-> rule_based_result,
       ml_result       |-> ml_result]

analyze_emotion_hybrid(t, rule_based_result, ml_result) ==
  LET rule_confidence == Get(rule_based_result, "confidence", 500)
      ml_confidence   == Get(ml_result, "confidence", 500)
      choice == final_choice(rule_based_result, ml_result, rule_confidence, ml_confidence)
  IN  [emotion         |-> choice[1],
       color           |-> Get(rule_based_result, "color", "#808080"),
       intensity       |-> Get(rule_based_result, "intensity", 500),
       confidence      |-> combined_confidence(rule_confidence, ml_confidence),
       insights        |-> hybrid_insights(rule_based_result, rule_confidence, ml_confidence),
       recommendations |-> Get(rule_based_result, "recommendations", <<>>),
       matches         |-> Get(rule_based_result, "matches", <<>>),
       method          |-> choice[2],
       rule_based_result |-> rule_based_result,
       ml_result       |-> ml_result]

\* an insight is a tuple of the pieces of its formatted string; a plain
\* string is a single piece
Pieces(strings) == [i \in 1..Len(strings) |-> <<strings[i]>>]

\* analyze_emotion_advanced, lines 323-335
final_result(basic_result, context_result, hybrid_result) ==
  [emotion         |-> hybrid_result.emotion,
   color           |-> basic_result.color,
   intensity       |-> basic_result.intensity,
   confidence      |-> hybrid_result.confidence,
   insights        |-> Get(basic_result, "insights", <<>>)
                       \o Pieces(Get(context_result, "recommendations", <<>>)),
   recommendations |-> Get(basic_result, "recommendations", <<>>),
   matches         |-> Get(basic_result, "matches", <<>>),
   method          |-> hybrid_result.method,
   context_analysis    |-> context_result,
   ml_analysis         |-> Get(hybrid_result, "ml_result", <<>>),
   rule_based_analysis |-> basic_result]

NoResult == [emotion |-> "none"]

\* Python's None where a list or a datetime is expected: the empty sequence
\* (a datetime t is the one-element sequence <<t>>)
None == <<>>

(***************************************************************************)
(* server.py, EmotionAnalysisService.__init__: the label normalization     *)
(* table, the colors and the lexicon of analyze_enhanced.  Labels coming   *)
(* from the classifier are sequences of characters; the names of the       *)
(* closed set are strings.                                                 *)
(***************************************************************************)
emotion_mapping ==
  <<
    <<<<"j","o","y">>, "joy">>,
    <<<<"l","o","v","e">>, "love">>,
    <<<<"s","a","d","n","e","s","s">>, "sadness">>,
    <<<<"a","n","g","e","r">>, "anger">>,
    <<<<"f","e","a","r">>, "fear">>,
    <<<<"s","u","r","p","r","i","s","e">>, "joy">>,
    <<<<"n","e","u","t","r","a","l">>, "neutral">>,
    <<<<"d","i","s","g","u","s","t">>, "anger">>,
    <<<<"o","p","t","i","m","i","s","m">>, "joy">>,
    <<<<"p","e","s","s","i","m","i","s","m">>, "sadness">>,
    <<<<"t","r","u","s","t">>, "peace">>,
    <<<<"a","n","t","i","c","i","p","a","t","i","o","n">>, "joy">>,
    <<<<"c","o","n","f","u","s","i","o","n">>, "neutral">>,
    <<<<"r","e","m","o","r","s","e">>, "sadness">>,
    <<<<"d","i","s","a","p","p","o","i","n","t","m","e","n","t">>, "sadness">>,
    <<<<"r","e","a","l","i","z","a","t","i","o","n">>, "neutral">>,
    <<<<"c","u","r","i","o","s","i","t","y">>, "neutral">>,
    <<<<"a","d","m","i","r","a","t","i","o","n">>, "love">>,
    <<<<"a","m","u","s","e","m","e","n","t">>, "joy">>,
    <<<<"a","n","n","o","y","a","n","c","e">>, "anger">>,
    <<<<"g","r","a","t","i","t","u","d","e">>, "joy">>,
    <<<<"r","e","l","i","e","f">>, "peace">>,
    <<<<"p","r","i","d","e">>, "joy">>,
    <<<<"e","x","c","i","t","e","m","e","n","t">>, "joy">>,
    <<<<"s","a","t","i","s","f","a","c","t","i","o","n">>, "peace">>,
    <<<<"e","m","b","a","r","r","a","s","s","m","e","n","t">>, "fear">>,
    <<<<"g","r","i","e","f">>, "sadness">>,
    <<<<"n","e","r","v","o","u","s","n","e","s","s">>, "fear">>,
    <<<<"c","o","n","t","e","n","t","m","e","n","t">>, "peace">>,
    <<<<"h","o","p","e">>, "joy">>,
    <<<<"l","o","n","e","l","i","n","e","s","s">>, "sadness">>,
    <<<<"f","r","u","s","t","r","a","t","i","o","n">>, "anger">>,
    <<<<"e","n","t","h","e","n","t","h","u","s","i","a","s","m">>, "joy">>,
    <<<<"w","o","r","r","y">>, "fear">>,
    <<<<"b","o","r","e","d","o","m">>, "neutral">>,
    <<<<"s","h","a","m","e">>, "fear">>,
    <<<<"j","e","a","l","o","u","s","y">>, "anger">>,
    <<<<"s","y","m","p","a","t","h","y">>, "love">>,
    <<<<"a","w","e">>, "joy">>,
    <<<<"c","o","n","t","e","m","p","t">>, "anger">>
  >>

emotion_colors ==
  [ joy |-> "#ffb000",
    love |-> "#ff6b9d",
    sadness |-> "#4a9eff",
    anger |-> "#ff4757",
    fear |-> "#b644ff",
    peace |-> "#00ff88",
    neutral |-> "#808080" ]

\* the 'strong_keywords' lists of self.emotion_data in server.py, by emotion
enhanced_strong_keywords ==
  [ joy |->
      <<
        <<"e","c","s","t","a","t","i","c">>,
        <<"e","l","a","t","e","d">>,
        <<"t","h","r","i","l","l","e","d">>,
        <<"o","v","e","r","j","o","y","e","d">>,
        <<"e","u","p","h","o","r","i","c">>,
        <<"b","l","i","s","s","f","u","l">>,
        <<"p","r","o","m","o","t","e","d">>
      >>,
    anger |->
      <<
        <<"f","u","r","i","o","u","s">>,
        <<"r","a","g","e">>,
        <<"l","i","v","i","d">>,
        <<"e","n","r","a","g","e","d">>,
        <<"f","u","m","i","n","g">>,
        <<"h","a","t","e">>,
        <<"d","e","s","p","i","s","e">>,
        <<"d","i","s","g","u","s","t","e","d">>
      >>,
    sadness |->
      <<
        <<"d","e","v","a","s","t","a","t","e","d">>,
        <<"h","e","a","r","t","b","r","o","k","e","n">>,
        <<"d","e","p","r","e","s","s","e","d">>,
        <<"d","e","s","p","a","i","r">>,
        <<"g","r","i","e","f">>,
        <<"m","o","u","r","n","i","n","g">>
      >>,
    fear |->
      <<
        <<"t","e","r","r","i","f","i","e","d">>,
        <<"p","e","t","r","i","f","i","e","d">>,
        <<"h","o","r","r","i","f","i","e","d">>,
        <<"p","a","n","i","c">>,
        <<"t","e","r","r","o","r">>
      >>,
    love |->
      <<
        <<"a","d","o","r","e">>,
        <<"w","o","r","s","h","i","p">>,
        <<"p","a","s","s","i","o","n","a","t","e">>,
        <<"d","e","v","o","t","e","d">>,
        <<"c","h","e","r","i","s","h">>
      >>,
    peace |->
      <<
        <<"b","l","i","s","s","f","u","l">>,
        <<"s","e","r","e","n","e">>,
        <<"t","r","a","n","q","u","i","l">>,
        <<"z","e","n","l","i","k","e">>
      >>,
    neutral |->
      <<
        <<"i","n","d","i","f","f","e","r","e","n","t">>,
        <<"a","p","a","t","h","e","t","i","c">>,
        <<"u","n","c","o","n","c","e","r","n","e","d">>
      >> ]

\* the 'moderate_keywords' lists of self.emotion_data in server.py, by emotion
enhanced_moderate_keywords ==
  [ joy |->
      <<
        <<"h","a","p","p","y">>,
        <<"j","o","y">>,
        <<"j","o","y","f","u","l">>,
        <<"e","x","c","i","t","e","d">>,
        <<"w","o","n","d","e","r","f","u","l">>,
        <<"a","m","a","z","i","n","g">>,
        <<"f","a","n","t","a","s","t","i","c">>,
        <<"g","r","e","a","t">>,
        <<"a","w","e","s","o","m","e">>,
        <<"b","l","e","s","s","e","d">>,
        <<"g","r","a","t","e","f","u","l">>,
        <<"c","h","e","e","r","f","u","l">>,
        <<"d","e","l","i","g","h","t","e","d">>,
        <<"g","o","o","d">>,
        <<"e","x","c","e","l","l","e","n","t">>,
        <<"p","e","r","f","e","c","t">>,
        <<"l","o","v","e"," ","i","t">>,
        <<"a","c","h","i","e","v","e","d">>,
        <<"s","u","c","c","e","s","s">>,
        <<"w","o","n">>,
        <<"a","c","c","o","m","p","l","i","s","h","e","d">>,
        <<"p","r","o","u","d">>
      >>,
    anger |->
      <<
        <<"a","n","g","r","y">>,
        <<"m","a","d">>,
        <<"f","r","u","s","t","r","a","t","e","d">>,
        <<"i","r","r","i","t","a","t","e","d">>,
        <<"a","n","n","o","y","e","d">>,
        <<"p","i","s","s","e","d">>,
        <<"u","p","s","e","t">>,
        <<"b","o","t","h","e","r","e","d">>,
        <<"r","e","s","e","n","t","m","e","n","t">>,
        <<"t","o","u","c","h","y">>
      >>,
    sadness |->
      <<
        <<"s","a","d">>,
        <<"d","o","w","n">>,
        <<"l","o","n","e","l","y">>,
        <<"h","u","r","t">>,
        <<"b","r","o","k","e","n">>,
        <<"c","r","y","i","n","g">>,
        <<"t","e","a","r","s">>,
        <<"s","o","r","r","o","w">>,
        <<"m","e","l","a","n","c","h","o","l","y">>,
        <<"g","l","o","o","m","y">>,
        <<"l","o","s","t">>,
        <<"m","i","s","s">>,
        <<"a","l","o","n","e">>,
        <<"a","b","a","n","d","o","n","e","d">>,
        <<"d","i","s","a","p","p","o","i","n","t","e","d">>
      >>,
    fear |->
      <<
        <<"s","c","a","r","e","d">>,
        <<"a","f","r","a","i","d">>,
        <<"a","n","x","i","o","u","s">>,
        <<"w","o","r","r","i","e","d">>,
        <<"n","e","r","v","o","u","s">>,
        <<"f","e","a","r">>,
        <<"s","t","r","e","s","s">>,
        <<"s","t","r","e","s","s","e","d">>,
        <<"o","v","e","r","w","h","e","l","m","e","d">>,
        <<"d","r","e","a","d">>,
        <<"a","n","x","i","e","t","y">>,
        <<"u","n","e","a","s","y">>
      >>,
    love |->
      <<
        <<"l","o","v","e">>,
        <<"r","o","m","a","n","c","e">>,
        <<"r","o","m","a","n","t","i","c">>,
        <<"c","r","u","s","h">>,
        <<"a","f","f","e","c","t","i","o","n">>,
        <<"v","a","l","e","n","t","i","n","e">>,
        <<"t","e","n","d","e","r">>,
        <<"b","e","l","o","v","e","d">>,
        <<"d","e","a","r">>
      >>,
    peace |->
      <<
        <<"c","a","l","m">>,
        <<"p","e","a","c","e">>,
        <<"p","e","a","c","e","f","u","l">>,
        <<"r","e","l","a","x","e","d">>,
        <<"z","e","n">>,
        <<"m","e","d","i","t","a","t","i","o","n">>,
        <<"q","u","i","e","t">>,
        <<"s","t","i","l","l">>,
        <<"c","o","n","t","e","n","t">>,
        <<"b","a","l","a","n","c","e","d">>,
        <<"c","e","n","t","e","r","e","d">>,
        <<"m","i","n","d","f","u","l">>,
        <<"s","a","t","i","s","f","i","e","d">>,
        <<"f","u","l","f","i","l","l","e","d">>
      >>,
    neutral |->
      <<
        <<"n","e","u","t","r","a","l">>,
        <<"o","k","a","y">>,
        <<"f","i","n","e">>,
        <<"a","l","r","i","g","h","t">>,
        <<"n","o","r","m","a","l">>,
        <<"a","v","e","r","a","g","e">>,
        <<"o","r","d","i","n","a","r","y">>,
        <<"r","e","g","u","l","a","r">>,
        <<"s","t","a","n","d","a","r","d">>,
        <<"t","y","p","i","c","a","l">>,
        <<"u","s","u","a","l">>,
        <<"c","o","m","m","o","n">>,
        <<"t","r","i","e","d">>,
        <<"a","t","t","e","m","p","t","e","d">>,
        <<"m","a","y","b","e">>,
        <<"p","o","s","s","i","b","l","y">>
      >> ]

\* the 'context_boosters' lists of self.emotion_data in server.py, by emotion
enhanced_context_boosters ==
  [ joy |->
      <<
        <<"t","o","d","a","y">>,
        <<"j","u","s","t">>,
        <<"f","i","n","a","l","l","y">>,
        <<"g","o","t">>,
        <<"r","e","c","e","i","v","e","d">>
      >>,
    anger |->
      <<
        <<"b","o","s","s">>,
        <<"w","o","r","k">>,
        <<"s","t","u","p","i","d">>,
        <<"i","d","i","o","t">>,
        <<"d","a","m","n">>,
        <<"h","e","l","l">>
      >>,
    sadness |->
      <<
        <<"d","i","e","d">>,
        <<"d","e","a","t","h">>,
        <<"b","r","o","k","e"," ","u","p">>,
        <<"l","o","s","t">>,
        <<"f","a","i","l","e","d">>,
        <<"r","e","j","e","c","t","e","d">>
      >>,
    fear |->
      <<
        <<"d","y","i","n","g">>,
        <<"d","e","a","t","h">>,
        <<"k","i","l","l">>,
        <<"d","a","n","g","e","r">>,
        <<"t","h","r","e","a","t">>,
        <<"a","c","c","i","d","e","n","t">>
      >>,
    love |->
      <<
        <<"h","u","g","g","e","d">>,
        <<"k","i","s","s","e","d">>,
        <<"m","a","r","r","i","e","d">>,
        <<"r","e","l","a","t","i","o","n","s","h","i","p">>,
        <<"t","o","g","e","t","h","e","r">>
      >>,
    peace |->
      <<
        <<"f","i","n","a","l","l","y">>,
        <<"a","t"," ","l","a","s","t">>,
        <<"r","e","l","i","e","f">>,
        <<"r","e","s","o","l","v","e","d">>
      >>,
    neutral |->
      <<
        <<"w","h","a","t","e","v","e","r">>,
        <<"d","o","e","s","n","'","t"," ","m","a","t","t","e","r">>,
        <<"n","o","t"," ","s","u","r","e">>
      >> ]

\* insertion order of the keys of self.emotion_data in server.py
EnhancedOrder == <<"joy", "anger", "sadness", "fear", "love", "peace", "neutral">>

enhanced_emotion_data ==
  [ joy |-> [strong_keywords   |-> enhanced_strong_keywords.joy,
       moderate_keywords |-> enhanced_moderate_keywords.joy,
       context_boosters  |-> enhanced_context_boosters.joy,
       color |-> "#ffb000", base_intensity |-> 800],
    anger |-> [strong_keywords   |-> enhanced_strong_keywords.anger,
       moderate_keywords |-> enhanced_moderate_keywords.anger,
       context_boosters  |-> enhanced_context_boosters.anger,
       color |-> "#ff4757", base_intensity |-> 900],
    sadness |-> [strong_keywords   |-> enhanced_strong_keywords.sadness,
       moderate_keywords |-> enhanced_moderate_keywords.sadness,
       context_boosters  |-> enhanced_context_boosters.sadness,
       color |-> "#4a9eff", base_intensity |-> 800],
    fear |-> [strong_keywords   |-> enhanced_strong_keywords.fear,
       moderate_keywords |-> enhanced_moderate_keywords.fear,
       context_boosters  |-> enhanced_context_boosters.fear,
       color |-> "#b644ff", base_intensity |-> 800],
    love |-> [strong_keywords   |-> enhanced_strong_keywords.love,
       moderate_keywords |-> enhanced_moderate_keywords.love,
       context_boosters  |-> enhanced_context_boosters.love,
       color |-> "#ff6b9d", base_intensity |-> 700],
    peace |-> [strong_keywords   |-> enhanced_strong_keywords.peace,
       moderate_keywords |-> enhanced_moderate_keywords.peace,
       context_boosters  |-> enhanced_context_boosters.peace,
       color |-> "#00ff88", base_intensity |-> 600],
    neutral |-> [strong_keywords   |-> enhanced_strong_keywords.neutral,
       moderate_keywords |-> enhanced_moderate_keywords.neutral,
       context_boosters  |-> enhanced_context_boosters.neutral,
       color |-> "#808080", base_intensity |-> 500] ]

\* the characters of a name of the closed set
Chars ==
  [ joy |-> <<"j","o","y">>,
    anger |-> <<"a","n","g","e","r">>,
    sadness |-> <<"s","a","d","n","e","s","s">>,
    fear |-> <<"f","e","a","r">>,
    love |-> <<"l","o","v","e">>,
    peace |-> <<"p","e","a","c","e">>,
    neutral |-> <<"n","e","u","t","r","a","l">> ]

(***************************************************************************)
(* server.py, EmotionAnalysisService: the keyword fallback analyze_enhanced *)
(* and _process_ai_results.  Scores of analyze_enhanced are kept doubled   *)
(* (a strong keyword counts 3, a moderate one 1.5, a booster 0.5).         *)
(***************************************************************************)
MappingHas(label) == \E i \in 1..Len(emotion_mapping) : emotion_mapping[i][1] = label

\* self.emotion_mapping[label], for a label the table has
MappingGet(label) ==
  emotion_mapping[CHOOSE i \in 1..Len(emotion_mapping) : emotion_mapping[i][1] = label][2]

\* lines 604-610
_determine_complexity(confidence, secondary_count) ==
  IF confidence > 900 /\ secondary_count = 0 THEN "simple"
  ELSE IF confidence > 700 /\ secondary_count <= 1 THEN "moderate"
  ELSE "complex"

\* lines 560-602: statement for statement the body of server_simple.py's
\* _generate_recommendations
_generate_improved_recommendations(emotion, intensity, t) ==
  _generate_recommendations(emotion, intensity, t)

\* twice the score of lines 492-505
enhanced_total(e, text_lower) ==
  LET data   == enhanced_emotion_data[e]
      score  == 6 * Len(Matched(data.strong_keywords, text_lower))
                + 3 * Len(Matched(data.moderate_keywords, text_lower))
      boost == IF score > 0
                         THEN Len(Matched(data.context_boosters, text_lower))
                         ELSE 0
  IN  score + boost

\* lines 488-515: the emotions with total_score > 0
enhanced_scores(text_lower) ==
  LET scored == {e \in Emotions : enhanced_total(e, text_lower) > 0}
  IN  [e \in scored |->
         LET data  == enhanced_emotion_data[e]
             total == enhanced_total(e, text_lower)
         IN  [score      |-> total,
              confidence |-> Min(950, 300 + 75 * total),
              intensity  |-> Min(1000, data.base_intensity + 25 * total),
              color      |-> data.color,
              matches    |-> Tagged(strong_tag, Matched(data.strong_keywords, text_lower))
                             \o Tagged(moderate_tag,
                                       Matched(data.moderate_keywords, text_lower))]]

\* sorted_emotions[1:3]
Slice13(s) == SubSeq(s, 2, Min(3, Len(s)))

\* lines 519-548: the result for the scored emotions in sorted order
enhanced_primary(scores, sorted, t) ==
  LET swap == /\ Len(sorted) > 1
              /\ Abs(scores[sorted[1]].score - scores[sorted[2]].score) < 1
              /\ scores[sorted[2]].intensity > scores[sorted[1]].intensity
      primary_emotion_name == IF swap THEN sorted[2] ELSE sorted[1]
  IN  [emotion    |-> primary_emotion_name,
       color      |-> scores[primary_emotion_name].color,
       intensity  |-> scores[primary_emotion_name].intensity,
       confidence |-> scores[primary_emotion_name].confidence,
       insights   |->
         (IF scores[primary_emotion_name].confidence > 800
            THEN << <<"Strong", primary_emotion_name, "indicators detected">> >>
            ELSE <<>>)
         \o (IF Len(sorted) > 1
               THEN << <<"Mixed emotions detected:", CountStr[Len(sorted)],
                         "different states">> >>
               ELSE <<>>),
       recommendations |->
         _generate_improved_recommendations(primary_emotion_name,
                                            scores[primary_emotion_name].intensity, t),
       secondary_emotions |->
         SelectSeq([i \in 1..Len(Slice13(sorted)) |-> Chars[Slice13(sorted)[i]]],
                   LAMBDA name : name # Chars[primary_emotion_name]),
       emotional_complexity |->
         _determine_complexity(
           scores[primary_emotion_name].confidence,
           Len(SelectSeq(Slice13(sorted), LAMBDA name : name # primary_emotion_name))),
       is_ai_analyzed |-> FALSE,
       matches    |-> scores[primary_emotion_name].matches]

\* lines 517-558: the result for the scores of a text
enhanced_result(scores, t) ==
  IF DOMAIN scores # {}
    THEN enhanced_primary(
           scores,
           sorted_desc(SelectSeq(EnhancedOrder, LAMBDA e : e \in DOMAIN scores), scores),
           t)
    ELSE [emotion    |-> "neutral",
          color      |-> "#808080",
          intensity  |-> 500,
          confidence |-> 600,
          insights   |-> << <<"No strong emotional indicators detected">> >>,
          recommendations |-> <<"Try expressing your feelings more specifically">>,
          secondary_emotions |-> <<>>,
          emotional_complexity |-> "simple",
          is_ai_analyzed |-> FALSE]

\* lines 485-558
analyze_enhanced(t) == enhanced_result(enhanced_scores(strip(lower(t))), t)

\* sorted(result, key=lambda x: x.get('score', 0), reverse=True) on a list
\* of label/score entries: stable, descending
RECURSIVE insert_by_score(_, _)
insert_by_score(x, sorted) ==
  IF sorted = <<>> THEN <<x>>
  ELSE IF Head(sorted).score <= x.score
         THEN <<x>> \o sorted
         ELSE <<Head(sorted)>> \o insert_by_score(x, Tail(sorted))

RECURSIVE sorted_by_score(_)
sorted_by_score(entries) ==
  IF entries = <<>> THEN <<>>
  ELSE insert_by_score(Head(entries), sorted_by_score(Tail(entries)))

positive_label == <<"p","o","s","i","t","i","v","e">>

negative_label == <<"n","e","g","a","t","i","v","e">>

neutral_label == <<"n","e","u","t","r","a","l">>

\* `if emotion_result and isinstance(emotion_result, list)`
IsNonEmptyList(r) == r # None

\* lines 461-469, one step of the loop over sorted_emotions[1:3]
RECURSIVE collect_secondary(_, _, _)
collect_secondary(entries, primary, secondary_emotions) ==
  IF entries = <<>> THEN secondary_emotions
  ELSE LET emotion_data_ == Head(entries)
           sec_label == lower(emotion_data_.label)
           mapped_emotion == IF MappingHas(sec_label)
                               THEN Chars[MappingGet(sec_label)]
                               ELSE sec_label
           keep == /\ emotion_data_.score > 200
                   /\ mapped_emotion # Chars[primary]
                   /\ \A i \in 1..Len(secondary_emotions) :
                        secondary_emotions[i] # mapped_emotion
       IN  collect_secondary(Tail(entries), primary,
                             IF keep THEN Append(secondary_emotions, mapped_emotion)
                                     ELSE secondary_emotions)

\* lines 420-483; the sentiment modifier is kept in tenths
_process_ai_results(emotion_result, sentiment_result, t) ==
  LET has_emotion == IsNonEmptyList(emotion_result)
      sorted_emotions_ == IF has_emotion THEN sorted_by_score(emotion_result) ELSE <<>>
      emotion_label   == IF has_emotion THEN lower(sorted_emotions_[1].label)
                                        ELSE neutral_label
      confidence      == IF has_emotion THEN sorted_emotions_[1].score ELSE 500
      primary_emotion_ == IF has_emotion /\ MappingHas(emotion_label)
                            THEN MappingGet(emotion_label) ELSE "neutral"
      has_sentiment   == IsNonEmptyList(sentiment_result)
      sentiment_label == IF has_sentiment
                           THEN lower(sorted_by_score(sentiment_result)[1].label)
                           ELSE neutral_label
      sentiment_modifier ==
        IF ~has_sentiment THEN 10
        ELSE IF \/ /\ primary_emotion_ \in {"joy", "love", "peace"}
                   /\ Contains(positive_label, sentiment_label)
                \/ /\ primary_emotion_ \in {"sadness", "anger", "fear"}
                   /\ Contains(negative_label, sentiment_label)
               THEN 12
        ELSE IF primary_emotion_ = "neutral" /\ Contains(neutral_label, sentiment_label)
               THEN 11
        ELSE 10
      final_confidence == Min((confidence * sentiment_modifier) \div 10, 1000)
      final_intensity  == Min((final_confidence * 13) \div 10, 1000)
      secondary_emotions ==
        IF has_emotion
          THEN collect_secondary(Slice13(sorted_emotions_), primary_emotion_, <<>>)
          ELSE <<>>
  IN  [emotion    |-> primary_emotion_,
       color      |-> IF primary_emotion_ \in DOMAIN emotion_colors
                        THEN emotion_colors[primary_emotion_] ELSE "#808080",
       intensity  |-> final_intensity,
       confidence |-> final_confidence,
       insights   |->
         (IF final_confidence > 800
            THEN << <<"High confidence", primary_emotion_, "detection",
                      Fmt2(final_confidence)>> >>
          ELSE IF final_confidence > 600
            THEN << <<"Moderate confidence", primary_emotion_, "detection",
                      Fmt2(final_confidence)>> >>
          ELSE << <<"Low confidence detection, consider providing more context">> >>)
         \o (IF has_sentiment
               THEN << <<"Sentiment:", sentiment_label, "(reinforces emotion analysis)">> >>
               ELSE <<>>),
       recommendations |->
         _generate_improved_recommendations(primary_emotion_, final_intensity, t),
       secondary_emotions |-> secondary_emotions,
       emotional_complexity |->
         _determine_complexity(final_confidence, Len(secondary_emotions)),
       is_ai_analyzed |-> TRUE,
       sentiment  |-> sentiment_label,
       raw_emotion_label |-> emotion_label]

\* the except branch of analyze_emotion, lines 659-670
AnalysisFailed ==
  [emotion    |-> "neutral",
   color      |-> "#808080",
   intensity  |-> 500,
   confidence |-> 500,
   insights   |-> << <<"Analysis failed, please try again">> >>,
   recommendations |-> <<"Try rephrasing your text">>,
   secondary_emotions |-> <<>>,
   is_ai_analyzed |-> FALSE,
   error      |-> TRUE]

NoCall == [op |-> "none"]

\* answers of MLEnhancedEmotionDetector.predict_emotion_ml used as inputs
MLLabels == {"anger", "peace"}

MLConfidences == {150, 640, 690, 710, 1000}

MLResults ==
  {[emotion |-> l, confidence |-> c, method |-> "ml_model"] :
     l \in MLLabels, c \in MLConfidences}

\* predict_emotion_ml raising instead of returning
MLRaises == [raises |-> TRUE]

\* predict_emotion_ml never returning
MLSilent == [silent |-> TRUE]

\* what analyze_emotion_hybrid does when line 244 yields no answer: the
\* exception leaves the function, or the call never returns
HybridFailures ==
  {[emotion |-> "none", outcome |-> "raised", ml_result |-> MLRaises],
   [emotion |-> "none", outcome |-> "blocked", ml_result |-> MLSilent]}

ConversationIds == {"default", "conv1"}

UserIds == {"default"}

ContextMLOutcomes ==
  {MLRaises,
   [emotion |-> "anger", confidence |-> 150, method |-> "ml_model"],
   [emotion |-> "peace", confidence |-> 1000, method |-> "ml_model"]}

MaxCalls == 6

ThreadIds == {1, 2}

MaxThreadCalls == 6

IdleThread ==
  [pc |-> "idle", text |-> <<>>, user_id |-> "default", conversation_id |-> "default",
   current |-> <<>>, context |-> <<>>, seen |-> <<>>, combined |-> <<>>,
   stale |-> FALSE]

\* values of the variables a specification does not use
ScorerIdle ==
  /\ text = <<>>
  /\ result = NoResult
  /\ hybrid_out = NoResult

AnalyzerIdle ==
  /\ advanced_features_available = TRUE
  /\ conversation_history = <<>>
  /\ user_patterns = <<>>
  /\ call_log = <<>>
  /\ last_call = NoCall
  /\ clock = 0

WindowIdle ==
  /\ window_history = <<>>
  /\ window_out = NoResult

ThreadsIdle == threads = [tid \in ThreadIds |-> IdleThread]

\* circuit_breaker_state as __init__ sets it (server.py line 310)
ClosedBreaker == [failures |-> 0, is_open |-> FALSE, last_failure |-> None]

IdleAI == [pc |-> "idle", calls |-> 0]

AIIdle ==
  /\ settings = [huggingface_api_key |-> FALSE, redis_available |-> FALSE]
  /\ circuit_breaker_state = ClosedBreaker
  /\ utcnow = 0
  /\ hf_cache = <<>>
  /\ ai = IdleAI

FeedbackIdle ==
  /\ feedback = <<>>
  /\ model_improvements = <<>>
  /\ feedback_out = NoCall

(***************************************************************************)
(* SpecScorer: the keyword scorer and the hybrid combiner as functions of  *)
(* the text and of the classifier's answer.                                *)
(***************************************************************************)
InitScorer ==
  /\ text \in Texts
  /\ result = NoResult
  /\ hybrid_out = NoResult
  /\ AnalyzerIdle
  /\ WindowIdle
  /\ ThreadsIdle
  /\ AIIdle
  /\ FeedbackIdle

\* POST /api/analyze-emotion -> emotion_service.analyze_emotion(request.text)
AnalyzeEmotion ==
  /\ result = NoResult
  /\ result' = ScorerTable[text]
  /\ UNCHANGED <<text, hybrid_out, analyzer_vars, window_vars, threads>>
  /\ UNCHANGED <<ai_vars, feedback_vars>>

\* hybrid_detector.analyze_emotion_hybrid(text, basic_result)
AnalyzeEmotionHybrid ==
  /\ result # NoResult
  /\ hybrid_out = NoResult
  /\ \E ml \in MLResults :
       hybrid_out' = analyze_emotion_hybrid(text, result, ml)
  /\ UNCHANGED <<text, result, analyzer_vars, window_vars, threads>>
  /\ UNCHANGED <<ai_vars, feedback_vars>>

\* the same call when predict_emotion_ml (line 244) raises or never returns:
\* analyze_emotion_hybrid has no handler and no timeout around it
AnalyzeEmotionHybridFails ==
  /\ result # NoResult
  /\ hybrid_out = NoResult
  /\ hybrid_out' \in HybridFailures
  /\ UNCHANGED <<text, result, analyzer_vars, window_vars, threads>>
  /\ UNCHANGED <<ai_vars, feedback_vars>>

NextScorer == AnalyzeEmotion \/ AnalyzeEmotionHybrid \/ AnalyzeEmotionHybridFails

SpecScorer == InitScorer /\ [][NextScorer]_vars

(***************************************************************************)
(* Spec: the service with its context analyzer, one handler at a time      *)
(* (the endpoints are coroutines that never await inside the call).        *)
(***************************************************************************)
Init ==
  /\ ScorerIdle
  /\ advanced_features_available \in BOOLEAN
  /\ conversation_history = <<>>
  /\ user_patterns = <<>>
  /\ call_log = <<>>
  /\ last_call = NoCall
  /\ clock = 0
  /\ WindowIdle
  /\ ThreadsIdle
  /\ AIIdle
  /\ FeedbackIdle

\* the ghost log: the entry a call appends is also appended to call_log
logged(log, conversation_id, entry) ==
  (conversation_id :> Append(history_of(log, conversation_id), entry)) @@ log

\* context_analyzer.analyze_context(text, user_id, conversation_id)
AnalyzeContext(t, user_id, conversation_id) ==
  /\ advanced_features_available
  /\ clock < MaxCalls
  /\ LET combined == analyze_context(conversation_history, user_patterns,
                                     t, user_id, conversation_id)
     IN  /\ conversation_history' =
               _update_history(conversation_history, conversation_id, t, combined, clock)
         /\ call_log' = logged(call_log, conversation_id,
                               history_entry(t, combined, clock))
         /\ last_call' = [op |-> "analyze_context", text |-> t, user_id |-> user_id,
                          conversation_id |-> conversation_id, ret |-> combined]
  /\ clock' = clock + 1
  /\ UNCHANGED <<scorer_vars, advanced_features_available, user_patterns,
                 window_vars, threads>>
  /\ UNCHANGED <<ai_vars, feedback_vars>>

\* analyze_emotion_advanced undoing the call's history entry when the
\* hybrid step raises
history_after_advanced_undone(histories, conversation_id, t, context_result, now, ml) ==
  IF ml = MLRaises
    THEN histories
    ELSE _update_history(histories, conversation_id, t, context_result, now)

\* server_simple.py lines 308-342: conversation_history when the call
\* returns.  analyze_context (line 313) has appended the entry before the
\* hybrid step (line 318) runs, and the except branch (lines 339-342) leaves
\* the history as it is, whatever the outcome ml of the hybrid step.
history_after_advanced(histories, conversation_id, t, context_result, now, ml) ==
  _update_history(histories, conversation_id, t, context_result, now)

\* emotion_service.analyze_emotion_advanced(text, user_id, conversation_id)
AnalyzeEmotionAdvanced(t, user_id, conversation_id, ml) ==
  /\ clock < MaxCalls
  /\ IF ~advanced_features_available
       THEN /\ last_call' = [op |-> "analyze_emotion_advanced", text |-> t,
                             user_id |-> user_id, conversation_id |-> conversation_id,
                             fault |-> FALSE,
                             ret |-> ScorerTable[t]]
            /\ UNCHANGED <<conversation_history, call_log>>
       ELSE LET basic_result   == ScorerTable[t]
                context_result == analyze_context(conversation_history, user_patterns,
                                                  t, user_id, conversation_id)
            IN  /\ conversation_history' =
                     history_after_advanced(conversation_history, conversation_id, t,
                                            context_result, clock, ml)
                /\ call_log' = logged(call_log, conversation_id,
                                      history_entry(t, context_result, clock))
                /\ last_call' =
                     [op |-> "analyze_emotion_advanced", text |-> t,
                      user_id |-> user_id, conversation_id |-> conversation_id,
                      fault |-> (ml = MLRaises),
                      ret |-> IF ml = MLRaises
                                THEN ScorerTable[t]
                                ELSE final_result(basic_result, context_result,
                                       analyze_emotion_hybrid(t, basic_result, ml))]
  /\ clock' = clock + 1
  /\ UNCHANGED <<scorer_vars, advanced_features_available, user_patterns,
                 window_vars, threads>>
  /\ UNCHANGED <<ai_vars, feedback_vars>>

\* lines 327-329: emotion_counts as the sequence of its items in insertion
\* order
RECURSIVE count_emotions(_, _)
count_emotions(emotion_counts, emotions) ==
  IF emotions = <<>> THEN emotion_counts
  ELSE LET emotion == Head(emotions)
           known == \E i \in 1..Len(emotion_counts) : emotion_counts[i][1] = emotion
           counts == IF known THEN emotion_counts
                     ELSE Append(emotion_counts, <<emotion, 0>>)
       IN  count_emotions(
             [i \in 1..Len(counts) |->
                IF counts[i][1] = emotion THEN <<emotion, counts[i][2] + 1>>
                                          ELSE counts[i]],
             Tail(emotions))

\* line 335: max(..., key=count) returns the first item of the largest count
RECURSIVE max_by_count(_)
max_by_count(items) ==
  IF Len(items) = 1 THEN items[1]
  ELSE LET rest == max_by_count(Tail(items))
       IN  IF items[1][2] >= rest[2] THEN items[1] ELSE rest

\* context_analyzer._calculate_duration, lines 347-360; timestamps are in
\* seconds and the text "<n> <unit>" is the pair <<n, unit>>
_calculate_duration(history) ==
  IF Len(history) < 2 THEN <<0, "minutes">>
  ELSE LET duration == history[Len(history)].timestamp - history[1].timestamp
       IN  IF duration < 60 THEN <<duration, "seconds">>
           ELSE IF duration < 3600 THEN <<duration \div 60, "minutes">>
           ELSE <<duration \div 3600, "hours">>

\* context_analyzer._calculate_trend, lines 362-381
_calculate_trend(emotions) ==
  IF Len(emotions) < 2 THEN "stable"
  ELSE LET positive_emotions == {"joy", "love", "peace"}
           negative_emotions == {"sadness", "anger", "fear"}
           positive_count ==
             Cardinality({i \in 1..Len(emotions) : emotions[i] \in positive_emotions})
           negative_count ==
             Cardinality({i \in 1..Len(emotions) : emotions[i] \in negative_emotions})
       IN  IF positive_count > negative_count THEN "positive"
           ELSE IF negative_count > positive_count THEN "negative"
           ELSE "neutral"

\* lines 326-345, the summary of a non-empty history; the diversity is kept
\* as the fraction <<distinct, total>>
summary_of(history, conversation_id) ==
  LET emotions == [i \in 1..Len(history) |-> history[i].emotion]
      emotion_counts == count_emotions(<<>>, emotions)
  IN  [conversation_id |-> conversation_id,
       total_messages |-> Len(history),
       emotion_distribution |-> emotion_counts,
       dominant_emotion |-> max_by_count(emotion_counts)[1],
       emotional_diversity |-> <<Cardinality(Range(emotions)), Len(emotions)>>,
       conversation_duration |-> _calculate_duration(history),
       emotional_trend |-> _calculate_trend(emotions)]

\* get_conversation_summary reading self.conversation_history[conversation_id]
\* before any test: the defaultdict creates the key
get_conversation_summary_by_lookup(histories, conversation_id) ==
  LET looked_up == IF conversation_id \in DOMAIN histories THEN histories
                   ELSE (conversation_id :> <<>>) @@ histories
      history == looked_up[conversation_id]
  IN  [conversation_history |-> looked_up,
       ret |-> IF history = <<>> THEN [error |-> "No conversation history"]
               ELSE summary_of(history, conversation_id)]

\* context_analyzer.get_conversation_summary, lines 317-345: the dictionary
\* after the call and the value returned.  The membership test of line 319
\* does not create a key, and line 322 is reached only for an existing key.
get_conversation_summary(histories, conversation_id) ==
  IF conversation_id \notin DOMAIN histories
    THEN [conversation_history |-> histories,
          ret |-> [error |-> "Conversation not found"]]
    ELSE LET history == histories[conversation_id]
         IN  [conversation_history |-> histories,
              ret |-> IF history = <<>> THEN [error |-> "No conversation history"]
                      ELSE summary_of(history, conversation_id)]

\* the ids a summary is requested for
SummaryIds == ConversationIds \cup {"conv2"}

\* GET /api/conversation/{conversation_id}/summary, server_simple.py lines
\* 523-534
GetConversationSummary(conversation_id) ==
  /\ IF ~advanced_features_available
       THEN /\ last_call' = [op |-> "get_conversation_summary",
                             conversation_id |-> conversation_id,
                             ret |-> [status_code |-> 503,
                                      detail |-> "Context analysis not available"]]
            /\ UNCHANGED conversation_history
       ELSE LET summary == get_conversation_summary(conversation_history,
                                                    conversation_id)
            IN  /\ conversation_history' = summary.conversation_history
                /\ last_call' = [op |-> "get_conversation_summary",
                                 conversation_id |-> conversation_id,
                                 ret |-> summary.ret]
  /\ UNCHANGED <<scorer_vars, advanced_features_available, user_patterns,
                 call_log, clock, window_vars, threads>>
  /\ UNCHANGED <<ai_vars, feedback_vars>>

Next ==
  \/ \E t \in ContextTexts, u \in UserIds, c \in ConversationIds :
       AnalyzeContext(t, u, c)
  \/ \E t \in ContextTexts, u \in UserIds, c \in ConversationIds,
        ml \in ContextMLOutcomes :
       AnalyzeEmotionAdvanced(t, u, c, ml)
  \/ \E c \in SummaryIds : GetConversationSummary(c)

Spec == Init /\ [][Next]_vars

(***************************************************************************)
(* SpecWindow: _analyze_context_window, _analyze_emotional_transitions and *)
(* _combine_analyses as functions of the history they are given.           *)
(***************************************************************************)
WindowLabels ==
  {"neutral", "sadness", "anger", "joy", "excitement", "ecstasy",
   "fear", "panic", "terror", "peace", "anxiety"}

MaxSeedLen == 4

\* a history whose entries carry the given labels
seeded(labels) ==
  [i \in 1..Len(labels) |->
     [text |-> <<>>, emotion |-> labels[i], timestamp |-> i, analysis |-> <<>>]]

InitWindow ==
  /\ ScorerIdle
  /\ AnalyzerIdle
  /\ \E n \in 0..MaxSeedLen :
       \E labels \in [1..n -> WindowLabels] : window_history = seeded(labels)
  /\ window_out = NoResult
  /\ ThreadsIdle
  /\ AIIdle
  /\ FeedbackIdle

\* the analysis analyze_context computes when the conversation's deque is
\* window_history
AnalyzeWindow(t, user_id) ==
  /\ window_out = NoResult
  /\ window_out' = analyze_context(("default" :> window_history), user_patterns,
                                   t, user_id, "default")
  /\ UNCHANGED <<scorer_vars, analyzer_vars, window_history, threads>>
  /\ UNCHANGED <<ai_vars, feedback_vars>>

\* the summary get_conversation_summary computes when the conversation's
\* deque is window_history
SummarizeWindow ==
  /\ window_out = NoResult
  /\ last_call = NoCall
  /\ last_call' = [op |-> "get_conversation_summary", conversation_id |-> "default",
                   ret |-> get_conversation_summary(("default" :> window_history),
                                                    "default").ret]
  /\ UNCHANGED <<scorer_vars, advanced_features_available, conversation_history,
                 user_patterns, call_log, clock, window_vars, threads>>
  /\ UNCHANGED <<ai_vars, feedback_vars>>

NextWindow ==
  \/ \E t \in ContextTexts, u \in UserIds : AnalyzeWindow(t, u)
  \/ SummarizeWindow

SpecWindow == InitWindow /\ [][NextWindow]_vars

(***************************************************************************)
(* SpecThreads: analyze_context called from several threads.  The method   *)
(* takes no lock, so the callers interleave between its statements.        *)
(***************************************************************************)
InitThreads ==
  /\ ScorerIdle
  /\ AnalyzerIdle
  /\ WindowIdle
  /\ ThreadsIdle
  /\ AIIdle
  /\ FeedbackIdle

Running == {tid \in ThreadIds : threads[tid].pc # "idle"}

\* line 53 (the defaultdict lookup creates the key) and line 56
T_Begin(tid, t, user_id, conversation_id) ==
  /\ threads[tid].pc = "idle"
  /\ clock + Cardinality(Running) < MaxThreadCalls
  /\ conversation_history' =
       (conversation_id :> history_of(conversation_history, conversation_id))
       @@ conversation_history
  /\ threads' = [threads EXCEPT ![tid] =
       [IdleThread EXCEPT !.pc = "window", !.text = t, !.user_id = user_id,
                          !.conversation_id = conversation_id,
                          !.current = current_text(t)]]
  /\ UNCHANGED <<scorer_vars, advanced_features_available, user_patterns, call_log,
                 last_call, clock, window_vars>>
  /\ UNCHANGED <<ai_vars, feedback_vars>>

\* line 59
T_Window(tid) ==
  /\ threads[tid].pc = "window"
  /\ LET history == conversation_history[threads[tid].conversation_id]
     IN  threads' = [threads EXCEPT
                       ![tid].pc = "transitions",
                       ![tid].seen = history,
                       ![tid].context = _analyze_context_window(threads[tid].text, history)]
  /\ UNCHANGED <<scorer_vars, analyzer_vars, window_vars>>
  /\ UNCHANGED <<ai_vars, feedback_vars>>

\* lines 62-70
T_Transitions(tid) ==
  /\ threads[tid].pc = "transitions"
  /\ LET me == threads[tid]
         history == conversation_history[me.conversation_id]
     IN  threads' = [threads EXCEPT
                       ![tid].pc = "append",
                       ![tid].combined =
                          _combine_analyses(me.current, me.context,
                            _analyze_user_patterns(user_patterns, me.text, me.user_id),
                            _analyze_emotional_transitions(me.text, history))]
  /\ UNCHANGED <<scorer_vars, analyzer_vars, window_vars>>
  /\ UNCHANGED <<ai_vars, feedback_vars>>

\* lines 296-303
T_Append(tid) ==
  /\ threads[tid].pc = "append"
  /\ LET me == threads[tid]
         history == conversation_history[me.conversation_id]
         entry == history_entry(me.text, me.combined, clock)
     IN  /\ conversation_history' =
               [conversation_history EXCEPT ![me.conversation_id] = Append(history, entry)]
         /\ call_log' = logged(call_log, me.conversation_id, entry)
         /\ threads' = [threads EXCEPT ![tid].pc = "check",
                                       ![tid].stale = (history # me.seen)]
  /\ clock' = clock + 1
  /\ UNCHANGED <<scorer_vars, advanced_features_available, user_patterns, last_call,
                 window_vars>>
  /\ UNCHANGED <<ai_vars, feedback_vars>>

\* line 306
T_Check(tid) ==
  /\ threads[tid].pc = "check"
  /\ threads' = [threads EXCEPT ![tid].pc =
       IF Len(conversation_history[threads[tid].conversation_id]) > window_size
         THEN "popleft" ELSE "idle"]
  /\ UNCHANGED <<scorer_vars, analyzer_vars, window_vars>>
  /\ UNCHANGED <<ai_vars, feedback_vars>>

\* line 307
T_Popleft(tid) ==
  /\ threads[tid].pc = "popleft"
  /\ conversation_history' =
       [conversation_history EXCEPT ![threads[tid].conversation_id] = Tail(@)]
  /\ threads' = [threads EXCEPT ![tid].pc = "idle"]
  /\ UNCHANGED <<scorer_vars, advanced_features_available, user_patterns, call_log,
                 last_call, clock, window_vars>>
  /\ UNCHANGED <<ai_vars, feedback_vars>>

NextThreads ==
  \/ \E tid \in ThreadIds, u \in UserIds, c \in ConversationIds :
       T_Begin(tid, Join(<<2>>), u, c)
  \/ \E tid \in ThreadIds : T_Window(tid)
  \/ \E tid \in ThreadIds : T_Transitions(tid)
  \/ \E tid \in ThreadIds : T_Append(tid)
  \/ \E tid \in ThreadIds : T_Check(tid)
  \/ \E tid \in ThreadIds : T_Popleft(tid)

SpecThreads == InitThreads /\ [][NextThreads]_vars

\* answers of the emotion model: label/score entries, scores in thousandths
EmotionBodies ==
  { << [label |-> <<"F","e","a","r">>, score |-> 250], [label |-> <<"J","o","y">>, score |-> 900], [label |-> <<"d","e","s","i","r","e">>, score |-> 300] >>,
    << [label |-> <<"d","e","s","i","r","e">>, score |-> 950] >>,
    << [label |-> <<"s","a","d","n","e","s","s">>, score |-> 250], [label |-> <<"a","n","g","e","r">>, score |-> 220] >> }

\* answers of the sentiment model
SentimentBodies ==
  { << [label |-> <<"P","O","S","I","T","I","V","E">>, score |-> 900] >>,
    << [label |-> <<"n","e","u","t","r","a","l">>, score |-> 700], [label |-> <<"n","e","g","a","t","i","v","e">>, score |-> 200] >> }

(***************************************************************************)
(* SpecAI: server.py's EmotionAnalysisService.analyze_emotion, one step    *)
(* per attempt of the two retry loops; the circuit breaker outlives the    *)
(* calls.                                                                  *)
(***************************************************************************)
circuit_breaker_timeout == 30

circuit_breaker_failures == 5

max_retries == 2

MaxAICalls == 2

MaxNow == 32

\* how far the clock moves between two steps
TickSeconds == {15, 16}

AITexts == {Join(<<2>>), Join(<<4, 6>>), <<" ", "a">>}

\* what a retry loop hands back: None, a list of label/score entries, or a
\* list whose entries are not dicts
NoAnswer == [kind |-> "none"]

Answer(entries) == [kind |-> "list", items |-> entries]

MalformedAnswer == [kind |-> "strings"]

\* the outcomes of one session.post: a 200 with its JSON body (a list, a
\* list holding one list, a dict, a list of strings), a 200 whose body
\* response.json() cannot parse, a 503, another status, a timeout, another
\* exception; items are the entries of the list, or of the list inside it
Responses(bodies) ==
  {[kind |-> "200", json |-> "list", items |-> b] : b \in bodies}
  \cup {[kind |-> "200", json |-> "nested", items |-> CHOOSE b \in bodies : Len(b) > 1],
        [kind |-> "200", json |-> "list", items |-> <<>>],
        [kind |-> "200", json |-> "nested", items |-> <<>>],
        [kind |-> "200", json |-> "dict", items |-> <<>>],
        [kind |-> "200", json |-> "strings", items |-> <<>>],
        [kind |-> "200", json |-> "invalid", items |-> <<>>],
        [kind |-> "503"], [kind |-> "500"], [kind |-> "timeout"], [kind |-> "exception"]}

\* the breaker check closing the breaker after the timeout without the
\* reset of line 317
breaker_check_keeps_failures(cb, time) ==
  IF cb.is_open
    THEN IF time - cb.last_failure[1] > circuit_breaker_timeout
           THEN [blocked |-> FALSE, cb |-> [cb EXCEPT !.is_open = FALSE]]
           ELSE [blocked |-> TRUE, cb |-> cb]
    ELSE [blocked |-> FALSE, cb |-> cb]

\* lines 314-320: the breaker as the attempt finds it; blocked means the
\* loop returns None without a request
breaker_check(cb, time) ==
  IF cb.is_open
    THEN IF time - cb.last_failure[1] > circuit_breaker_timeout
           THEN [blocked |-> FALSE, cb |-> [cb EXCEPT !.is_open = FALSE, !.failures = 0]]
           ELSE [blocked |-> TRUE, cb |-> cb]
    ELSE [blocked |-> FALSE, cb |-> cb]

\* lines 342-345, 348-351, 357-360
record_failure(cb, time) ==
  LET failures == cb.failures + 1
  IN  IF failures >= circuit_breaker_failures
        THEN [failures |-> failures, is_open |-> TRUE, last_failure |-> <<time>>]
        ELSE [cb EXCEPT !.failures = failures]

\* the loop iteration retrying after a status other than 200 and 503, the
\* break of lines 346 and 400 left out
retry_attempt_retrying_status(cb0, attempt, resp, time) ==
  LET check == breaker_check(cb0, time)
      cb    == check.cb
      again(c) == IF attempt < max_retries
                    THEN [cb |-> c, continue |-> TRUE, value |-> NoAnswer, requested |-> TRUE]
                    ELSE [cb |-> c, continue |-> FALSE, value |-> NoAnswer, requested |-> TRUE]
  IN  IF check.blocked
        THEN [cb |-> cb, continue |-> FALSE, value |-> NoAnswer, requested |-> FALSE]
      ELSE IF resp.kind = "200"
        THEN LET reset == [cb EXCEPT !.failures = 0]
             IN  IF resp.json = "nested" \/ (resp.json = "list" /\ resp.items # <<>>)
                   THEN [cb |-> reset, continue |-> FALSE, value |-> Answer(resp.items),
                         requested |-> TRUE]
                 ELSE IF resp.json = "strings"
                   THEN [cb |-> reset, continue |-> FALSE, value |-> MalformedAnswer,
                         requested |-> TRUE]
                 ELSE IF resp.json = "invalid"
                   THEN again(record_failure(reset, time))
                 ELSE again(reset)
      ELSE IF resp.kind = "503"
        THEN again(cb)
      ELSE IF resp.kind = "500"
        THEN again(record_failure(cb, time))
      ELSE again(record_failure(cb, time))

\* one iteration of the loop of _get_emotion_with_retry (lines 313-363) and
\* of _get_sentiment_with_retry (lines 367-417): the breaker afterwards,
\* whether the loop goes on, and the value returned if it does not
retry_attempt(cb0, attempt, resp, time) ==
  LET check == breaker_check(cb0, time)
      cb    == check.cb
      again(c) == IF attempt < max_retries
                    THEN [cb |-> c, continue |-> TRUE, value |-> NoAnswer, requested |-> TRUE]
                    ELSE [cb |-> c, continue |-> FALSE, value |-> NoAnswer, requested |-> TRUE]
  IN  IF check.blocked
        THEN [cb |-> cb, continue |-> FALSE, value |-> NoAnswer, requested |-> FALSE]
      ELSE IF resp.kind = "200"
        THEN LET reset == [cb EXCEPT !.failures = 0]
             IN  IF resp.json = "nested" \/ (resp.json = "list" /\ resp.items # <<>>)
                   THEN [cb |-> reset, continue |-> FALSE, value |-> Answer(resp.items),
                         requested |-> TRUE]
                 ELSE IF resp.json = "strings"
                   THEN [cb |-> reset, continue |-> FALSE, value |-> MalformedAnswer,
                         requested |-> TRUE]
                 ELSE IF resp.json = "invalid"
                   THEN again(record_failure(reset, time))
                 ELSE again(reset)
      ELSE IF resp.kind = "503"
        THEN again(cb)
      ELSE IF resp.kind = "500"
        THEN [cb |-> record_failure(cb, time), continue |-> FALSE, value |-> NoAnswer,
              requested |-> TRUE]
      ELSE again(record_failure(cb, time))

\* the list _process_ai_results receives
AsList(answer) == IF answer.kind = "list" THEN answer.items ELSE None

\* lines 651-655: the confidence threshold of analyze_emotion
Thresholded(res, t) ==
  IF Get(res, "confidence", 0) > 300 THEN res ELSE analyze_enhanced(t)

EnhancedTable == [t \in AITexts |-> analyze_enhanced(t)]

InitAI ==
  /\ ScorerIdle
  /\ AnalyzerIdle
  /\ WindowIdle
  /\ ThreadsIdle
  /\ FeedbackIdle
  /\ settings \in [huggingface_api_key : BOOLEAN, redis_available : BOOLEAN]
  /\ circuit_breaker_state = ClosedBreaker
  /\ utcnow = 0
  /\ hf_cache = <<>>
  /\ ai = IdleAI

AICall(t, path, ret) ==
  [pc |-> "done", calls |-> ai.calls + 1, text |-> t, path |-> path, attempt |-> 0,
   emotion_result |-> NoAnswer, sentiment_result |-> NoAnswer,
   requested |-> FALSE, ret |-> ret]

\* analyze_emotion up to the first request: validation (648-649), the cache
\* lookup (613-622; an entry may have expired or the lookup may fail) and
\* the missing API key (624-626)
AI_Begin(t, hit) ==
  /\ ai.pc \in {"idle", "done"}
  /\ ai.calls < MaxAICalls
  /\ ai' = IF Len(strip(t)) < 2
             THEN AICall(t, "invalid", [raised |-> "EmotionAnalysisError", status_code |-> 400])
           ELSE IF settings.redis_available /\ t \in DOMAIN hf_cache /\ hit
             THEN AICall(t, "cache", Thresholded(hf_cache[t], t))
           ELSE IF ~settings.huggingface_api_key
             THEN AICall(t, "no_key", Thresholded(EnhancedTable[t], t))
           ELSE [AICall(t, "api", NoResult) EXCEPT !.pc = "emotion"]
  /\ UNCHANGED <<settings, circuit_breaker_state, utcnow, hf_cache>>
  /\ UNCHANGED <<scorer_vars, analyzer_vars, window_vars, threads, feedback_vars>>

\* one attempt of _get_emotion_with_retry
AI_EmotionAttempt(resp) ==
  /\ ai.pc = "emotion"
  /\ LET step == retry_attempt(circuit_breaker_state, ai.attempt, resp, utcnow)
     IN  /\ circuit_breaker_state' = step.cb
         /\ ai' = IF step.continue
                    THEN [ai EXCEPT !.attempt = @ + 1, !.requested = step.requested]
                    ELSE [ai EXCEPT !.pc = "sentiment", !.attempt = 0,
                                    !.requested = step.requested,
                                    !.emotion_result = step.value]
  /\ UNCHANGED <<settings, utcnow, hf_cache>>
  /\ UNCHANGED <<scorer_vars, analyzer_vars, window_vars, threads, feedback_vars>>

\* one attempt of _get_sentiment_with_retry
AI_SentimentAttempt(resp) ==
  /\ ai.pc = "sentiment"
  /\ LET step == retry_attempt(circuit_breaker_state, ai.attempt, resp, utcnow)
     IN  /\ circuit_breaker_state' = step.cb
         /\ ai' = IF step.continue
                    THEN [ai EXCEPT !.attempt = @ + 1, !.requested = step.requested]
                    ELSE [ai EXCEPT !.pc = "process", !.attempt = 0,
                                    !.requested = step.requested,
                                    !.sentiment_result = step.value]
  /\ UNCHANGED <<settings, utcnow, hf_cache>>
  /\ UNCHANGED <<scorer_vars, analyzer_vars, window_vars, threads, feedback_vars>>

\* lines 632-645 and 652-655: _process_ai_results (an exception in it is
\* answered by analyze_enhanced, which is not cached), the cache write
\* (which may fail) and the confidence threshold
AI_Process(cached) ==
  /\ ai.pc = "process"
  /\ LET t == ai.text
         raises == MalformedAnswer \in {ai.emotion_result, ai.sentiment_result}
         res == IF raises
                  THEN EnhancedTable[t]
                  ELSE _process_ai_results(AsList(ai.emotion_result),
                                           AsList(ai.sentiment_result), t)
     IN  /\ hf_cache' = IF ~raises /\ settings.redis_available /\ cached
                          THEN (t :> res) @@ hf_cache
                          ELSE hf_cache
         /\ ai' = [ai EXCEPT !.pc = "done", !.ret = Thresholded(res, t)]
  /\ UNCHANGED <<settings, circuit_breaker_state, utcnow>>
  /\ UNCHANGED <<scorer_vars, analyzer_vars, window_vars, threads, feedback_vars>>

\* time passes; the clock is only ever compared with last_failure, so the
\* time that passes while the breaker is closed is not counted
AI_Tick(d) ==
  /\ circuit_breaker_state.is_open
  /\ utcnow + d <= MaxNow
  /\ utcnow' = utcnow + d
  /\ UNCHANGED <<settings, circuit_breaker_state, hf_cache, ai>>
  /\ UNCHANGED <<scorer_vars, analyzer_vars, window_vars, threads, feedback_vars>>

NextAI ==
  \/ \E t \in AITexts, hit \in BOOLEAN : AI_Begin(t, hit)
  \/ \E resp \in Responses(EmotionBodies) : AI_EmotionAttempt(resp)
  \/ \E resp \in Responses(SentimentBodies) : AI_SentimentAttempt(resp)
  \/ \E cached \in BOOLEAN : AI_Process(cached)
  \/ \E d \in TickSeconds : AI_Tick(d)

SpecAI == InitAI /\ [][NextAI]_vars

(***************************************************************************)
(* feedback_system.py: the feedback and model_improvements tables, the     *)
(* collector and the analyzer.  A row of feedback keeps the columns the    *)
(* code reads; confidences are in thousandths.  datetime.utcnow() differs  *)
(* from one collect_correction call to the next, so the timestamp of a row *)
(* is its position in the order of the calls.                              *)
(***************************************************************************)
MaxFeedback == 7

\* arguments of collect_correction used as inputs
Corrections ==
  { [original_text |-> "i won a lottery", predicted_emotion |-> "neutral",
     predicted_confidence |-> 600, user_corrected_emotion |-> "joy",
     user_confidence |-> 1000],
    [original_text |-> "got the job", predicted_emotion |-> "neutral",
     predicted_confidence |-> 400, user_corrected_emotion |-> "joy",
     user_confidence |-> 1000],
    [original_text |-> "tears at the wedding", predicted_emotion |-> "sadness",
     predicted_confidence |-> 700, user_corrected_emotion |-> "joy",
     user_confidence |-> 900],
    [original_text |-> "i won a lottery", predicted_emotion |-> "joy",
     predicted_confidence |-> 800, user_corrected_emotion |-> "anger",
     user_confidence |-> 1000] }

\* FeedbackDatabase.add_feedback, lines 68-83
add_feedback(rows, entry) == Append(rows, entry)

\* FeedbackDatabase.get_feedback_by_emotion, lines 85-106
get_feedback_by_emotion(rows, emotion) ==
  SelectSeq(rows, LAMBDA r : r.user_corrected_emotion = emotion)

\* ORDER BY timestamp DESC of line 113
RECURSIVE insert_by_timestamp(_, _)
insert_by_timestamp(sorted, r) ==
  IF sorted = <<>> THEN <<r>>
  ELSE IF r.timestamp > Head(sorted).timestamp THEN <<r>> \o sorted
  ELSE <<Head(sorted)>> \o insert_by_timestamp(Tail(sorted), r)

RECURSIVE order_by_timestamp_desc(_)
order_by_timestamp_desc(rows) ==
  IF rows = <<>> THEN <<>>
  ELSE insert_by_timestamp(order_by_timestamp_desc(SubSeq(rows, 1, Len(rows) - 1)),
                           rows[Len(rows)])

\* FeedbackDatabase.get_all_feedback, lines 108-127
get_all_feedback(rows) == order_by_timestamp_desc(rows)

\* lines 184-198, one step of the loop: mistake_patterns is kept as the
\* sequence of its items in insertion order
group_entry(mistake_patterns, entry) ==
  LET key == <<entry.predicted_emotion, entry.user_corrected_emotion>>
      known == \E i \in 1..Len(mistake_patterns) : mistake_patterns[i].key = key
      patterns == IF known THEN mistake_patterns
                  ELSE Append(mistake_patterns,
                              [key |-> key, count |-> 0, examples |-> <<>>,
                               total_confidence_diff |-> 0])
      confidence_diff == entry.user_confidence - entry.predicted_confidence
  IN  [i \in 1..Len(patterns) |->
         IF patterns[i].key = key
           THEN [patterns[i] EXCEPT
                   !.count = @ + 1,
                   !.examples = Append(@, entry.original_text),
                   !.total_confidence_diff = @ + confidence_diff]
           ELSE patterns[i]]

RECURSIVE group_entries(_, _)
group_entries(mistake_patterns, entries) ==
  IF entries = <<>> THEN mistake_patterns
  ELSE group_entries(group_entry(mistake_patterns, Head(entries)), Tail(entries))

\* line 204
FirstFive(examples) == SubSeq(examples, 1, Min(5, Len(examples)))

\* lines 207-211: sorted(..., key=count, reverse=True) is stable, patterns of
\* equal count keep their order
RECURSIVE insert_by_count(_, _)
insert_by_count(sorted, p) ==
  IF sorted = <<>> THEN <<p>>
  ELSE IF p.count > Head(sorted).count THEN <<p>> \o sorted
  ELSE <<Head(sorted)>> \o insert_by_count(Tail(sorted), p)

RECURSIVE sort_by_count_desc(_)
sort_by_count_desc(patterns) ==
  IF patterns = <<>> THEN <<>>
  ELSE insert_by_count(sort_by_count_desc(SubSeq(patterns, 1, Len(patterns) - 1)),
                       patterns[Len(patterns)])

\* analyze_common_mistakes without the sort of lines 207-211
analyze_common_mistakes_unsorted(rows) ==
  LET mistake_patterns == group_entries(<<>>, get_all_feedback(rows))
      sorted_patterns_ == mistake_patterns
  IN  [i \in 1..Len(sorted_patterns_) |->
         [predicted |-> sorted_patterns_[i].key[1],
          corrected |-> sorted_patterns_[i].key[2],
          count     |-> sorted_patterns_[i].count,
          examples  |-> FirstFive(sorted_patterns_[i].examples),
          avg_confidence_diff |-> <<sorted_patterns_[i].total_confidence_diff,
                                    sorted_patterns_[i].count>>,
          total_confidence_diff |-> sorted_patterns_[i].total_confidence_diff]]

\* FeedbackAnalyzer.analyze_common_mistakes, lines 178-220; the average is
\* kept as the fraction <<total, count>>
analyze_common_mistakes(rows) ==
  LET mistake_patterns == group_entries(<<>>, get_all_feedback(rows))
      sorted_patterns_ == sort_by_count_desc(mistake_patterns)
  IN  [i \in 1..Len(sorted_patterns_) |->
         [predicted |-> sorted_patterns_[i].key[1],
          corrected |-> sorted_patterns_[i].key[2],
          count     |-> sorted_patterns_[i].count,
          examples  |-> FirstFive(sorted_patterns_[i].examples),
          avg_confidence_diff |-> <<sorted_patterns_[i].total_confidence_diff,
                                    sorted_patterns_[i].count>>,
          total_confidence_diff |-> sorted_patterns_[i].total_confidence_diff]]

\* lines 228-237, the suggestion built for one mistake
suggestion_of_priority(mistake, high_from) ==
  [type |-> "keyword_addition",
   priority |-> IF mistake.count >= high_from THEN "high" ELSE "medium",
   description |-> <<"Add keywords for", mistake.corrected,
                     "to prevent misclassification as", mistake.predicted>>,
   examples |-> mistake.examples,
   affected_emotions |-> <<mistake.predicted, mistake.corrected>>,
   estimated_impact |-> mistake.count]

suggestion_of(mistake) == suggestion_of_priority(mistake, 5)

\* generate_improvement_suggestions emitting from the second record of a pair
generate_improvement_suggestions_from_2(rows) ==
  LET common_mistakes == SelectSeq(analyze_common_mistakes(rows),
                                   LAMBDA m : m.count >= 2)
  IN  [i \in 1..Len(common_mistakes) |-> suggestion_of(common_mistakes[i])]

\* FeedbackAnalyzer.generate_improvement_suggestions, lines 222-239
generate_improvement_suggestions(rows) ==
  LET common_mistakes == SelectSeq(analyze_common_mistakes(rows),
                                   LAMBDA m : m.count >= 3)
  IN  [i \in 1..Len(common_mistakes) |-> suggestion_of(common_mistakes[i])]

\* FeedbackCollector._is_new_mistake_pattern, lines 294-302
_is_new_mistake_pattern(rows, predicted, corrected) ==
  LET existing_feedback == get_feedback_by_emotion(rows, corrected)
  IN  \A i \in 1..Len(existing_feedback) :
        existing_feedback[i].predicted_emotion # predicted

\* FeedbackCollector._flag_for_immediate_improvement, lines 304-323
_flag_for_immediate_improvement(improvements, predicted, corrected, time) ==
  Append(improvements,
         [id |-> <<"immediate", predicted, corrected, time>>,
          improvement_type |-> "immediate_keyword_addition",
          description |-> <<"Add keywords to prevent", predicted,
                            "from being misclassified as", corrected>>,
          applied |-> FALSE,
          timestamp |-> time,
          feedback_count |-> 1])

InitFeedback ==
  /\ ScorerIdle
  /\ AnalyzerIdle
  /\ WindowIdle
  /\ ThreadsIdle
  /\ AIIdle
  /\ FeedbackIdle

\* FeedbackCollector.collect_correction, lines 258-292: the row is added
\* first (line 286), then the pattern test reads the table (line 289)
CollectCorrection(c) ==
  /\ Len(feedback) < MaxFeedback
  /\ LET time == Len(feedback) + 1
         feedback_id == Len(feedback) + 1
         entry == [id |-> feedback_id,
                   original_text |-> c.original_text,
                   predicted_emotion |-> c.predicted_emotion,
                   predicted_confidence |-> c.predicted_confidence,
                   user_corrected_emotion |-> c.user_corrected_emotion,
                   user_confidence |-> c.user_confidence,
                   feedback_type |-> "correction",
                   timestamp |-> time]
         rows == add_feedback(feedback, entry)
         is_new == _is_new_mistake_pattern(rows, c.predicted_emotion,
                                           c.user_corrected_emotion)
     IN  /\ feedback' = rows
         /\ model_improvements' =
              IF is_new
                THEN _flag_for_immediate_improvement(
                       model_improvements, c.predicted_emotion,
                       c.user_corrected_emotion, time)
                ELSE model_improvements
         /\ feedback_out' = [op |-> "collect_correction",
                             predicted |-> c.predicted_emotion,
                             corrected |-> c.user_corrected_emotion,
                             improvements_before |-> Len(model_improvements),
                             ret |-> feedback_id]
  /\ UNCHANGED <<scorer_vars, analyzer_vars, window_vars, threads, ai_vars>>

\* FeedbackAnalyzer.generate_improvement_suggestions called on the table
GenerateImprovementSuggestions ==
  /\ feedback_out' = [op |-> "generate_improvement_suggestions",
                      ret |-> generate_improvement_suggestions(feedback)]
  /\ UNCHANGED <<feedback, model_improvements>>
  /\ UNCHANGED <<scorer_vars, analyzer_vars, window_vars, threads, ai_vars>>

NextFeedback ==
  \/ \E c \in Corrections : CollectCorrection(c)
  \/ GenerateImprovementSuggestions

SpecFeedback == InitFeedback /\ [][NextFeedback]_vars

(***************************************************************************)
(* Claims about the context window analyzer.                               *)
(***************************************************************************)
\* C1: after n calls of analyze_context on a conversation its history holds
\* exactly min(n, window_size) entries, and they are the entries of the
\* most recent calls in call order.
C1_HistoryWindow ==
  \A c \in ConversationIds :
    LET h   == history_of(conversation_history, c)
        log == history_of(call_log, c)
        n   == Len(log)
    IN  /\ Len(h) = (IF n < window_size THEN n ELSE window_size)
        /\ \A i \in 1..Len(h) : h[i] = log[n - Len(h) + i]

\* a conversation that received more calls than the window holds
C1_Witness ==
  \E c \in DOMAIN conversation_history :
    /\ Len(call_log[c]) > window_size
    /\ Len(conversation_history[c]) = window_size
    /\ conversation_history[c][1] = call_log[c][Len(call_log[c]) - window_size + 1]
    /\ conversation_history[c][1] # call_log[c][1]

\* C2: the entry appended for an analysed text carries the emotion resolved
\* for that text: after analyze_emotion_advanced returns emotion E, the
\* newest history entry of the conversation has emotion E.
C2_EntryCarriesEmotion ==
  (last_call.op = "analyze_emotion_advanced" /\ advanced_features_available) =>
    LET h == conversation_history[last_call.conversation_id]
    IN  h[Len(h)].emotion = last_call.ret.emotion

EscalationTails ==
  {<<"neutral", "sadness", "anger">>,
   <<"joy", "excitement", "ecstasy">>,
   <<"fear", "panic", "terror">>}

\* the last three labels of the history the analysis was computed for
WindowTail ==
  [i \in 1..3 |-> window_history[Len(window_history) - 3 + i].emotion]

EndsEscalating == Len(window_history) >= 3 /\ WindowTail \in EscalationTails

\* C3: when the last three labels of the history are an escalation pattern,
\* analyze_context reports trend "escalating" and recommends de-escalation,
\* whatever else the window holds (the check comes before the
\* de-escalation, stable, volatile and mixed checks).
C3_Escalating ==
  (window_out # NoResult /\ EndsEscalating) =>
    /\ window_out.context_analysis.context_trend = "escalating"
    /\ window_out.context_analysis.pattern = WindowTail
    /\ \E i \in 1..Len(window_out.recommendations) :
         window_out.recommendations[i] = EscalationAdvice

\* an escalation pattern at the end of a longer history
C3_Witness ==
  /\ window_out # NoResult
  /\ Len(window_history) > 3
  /\ EndsEscalating
  /\ WindowTail = <<"neutral", "sadness", "anger">>
  /\ window_out.context_analysis.context_trend = "escalating"

\* C4: concurrent analyze_context calls on one conversation do not
\* interleave: every call appends to the history it computed its trend
\* from, and the history never holds more than window_size entries.
C4_Serialized ==
  /\ \A tid \in ThreadIds : ~threads[tid].stale
  /\ \A c \in DOMAIN conversation_history :
       Len(conversation_history[c]) <= window_size

(***************************************************************************)
(* What a text contains, read off the lexicon without running the scorer.  *)
(***************************************************************************)
TextFacts ==
  [t \in Texts |->
     LET s == strip(lower(t))
     IN  [sarcasm   |-> \E i \in 1..Len(sarcasm_indicators) :
                           Contains(sarcasm_indicators[i], s),
          negation  |-> \E i \in 1..Len(negation_words) : Contains(negation_words[i], s),
          strong    |-> [e \in Emotions |->
                           SelectSeq(emotion_data[e].strong_keywords,
                                     LAMBDA kw : Contains(kw, s))],
          moderate  |-> [e \in Emotions |->
                           SelectSeq(emotion_data[e].moderate_keywords,
                                     LAMBDA kw : Contains(kw, s))],
          boosters  |-> [e \in Emotions |->
                           SelectSeq(emotion_data[e].context_boosters,
                                     LAMBDA kw : Contains(kw, s))]]]

Facts == TextFacts[text]

HasTrigger == Facts.sarcasm \/ Facts.negation

\* the emotions that have a strong or moderate keyword in the text
KeywordEmotions ==
  {e \in Emotions : Facts.strong[e] # <<>> \/ Facts.moderate[e] # <<>>}

Scored == result # NoResult

IsSarcasmResult(r) ==
  /\ r.emotion = "neutral"
  /\ r.confidence = 700
  /\ r.intensity = 600
  /\ r.matches = << <<"s","a","r","c","a","s","m","_","d","e","t","e","c","t","e","d">> >>

IsNegationResult(r) ==
  /\ r.emotion = "neutral"
  /\ r.confidence = 600
  /\ r.intensity = 500
  /\ r.matches = << <<"n","e","g","a","t","i","o","n","_","d","e","t","e","c","t","e","d">> >>

IsDefaultResult(r) ==
  /\ r.emotion = "neutral"
  /\ r.confidence = 600
  /\ r.intensity = 500
  /\ r.matches = <<>>

BoosterOnly == {e \in Emotions : Facts.boosters[e] # <<>>} \ KeywordEmotions

\* the total the scoring rule assigns: 4 per strong keyword, 2 per moderate
\* keyword, and 1 per booster once the keyword score is positive
ExpectedTotal(e) ==
  IF e \in KeywordEmotions
    THEN 4 * Len(Facts.strong[e]) + 2 * Len(Facts.moderate[e]) + Len(Facts.boosters[e])
    ELSE 0

\* the number N of the "Mixed emotions detected: N" insight, 0 without it
MixedCount(r) ==
  LET notes == SelectSeq(r.insights, LAMBDA n : n[1] = "Mixed emotions detected:")
  IN  IF notes = <<>> THEN "0" ELSE notes[1][2]

\* C7 as stated: an emotion with boosters in the text but no strong or
\* moderate keyword gets total score 0, is never the returned emotion and
\* is not counted in the mixed-emotions note.
C7_AsStated ==
  Scored =>
    \A e \in BoosterOnly :
      /\ total_score(e, strip(lower(text))) = 0
      /\ result.emotion # e
      /\ ~HasTrigger =>
           MixedCount(result) =
             (IF Cardinality(KeywordEmotions) > 1
                THEN CountStr[Cardinality(KeywordEmotions)] ELSE "0")

\* C7 amended: an emotion with boosters but no keyword of its own gets no
\* score: it is returned only if it is neutral, and then as the fixed
\* default or override result; the mixed-emotions note counts only emotions
\* with keywords; and the returned emotion's confidence is that of its
\* keyword score plus 1 per booster.
C7_BoostersNeedKeyword ==
  Scored =>
    /\ \A e \in BoosterOnly :
         result.emotion = e =>
           /\ e = "neutral"
           /\ IsDefaultResult(result) \/ IsSarcasmResult(result) \/ IsNegationResult(result)
    /\ ~HasTrigger =>
         /\ MixedCount(result) =
              (IF Cardinality(KeywordEmotions) > 1
                 THEN CountStr[Cardinality(KeywordEmotions)] ELSE "0")
         /\ KeywordEmotions # {} =>
              /\ result.emotion \in KeywordEmotions
              /\ result.confidence =
                   (IF 400 + 120 * ExpectedTotal(result.emotion) < 980
                      THEN 400 + 120 * ExpectedTotal(result.emotion) ELSE 980)

\* a scored text that also holds boosters of an emotion without keywords
C7_Witness ==
  /\ Scored
  /\ ~HasTrigger
  /\ KeywordEmotions # {}
  /\ BoosterOnly \ {"neutral"} # {}
  /\ result.emotion \in KeywordEmotions

\* rank of an emotion in the lexicon order
OrderIndex(e) == CHOOSE i \in 1..Len(EmotionOrder) : EmotionOrder[i] = e

ExpectedIntensity(e) ==
  IF emotion_data[e].base_intensity + 80 * ExpectedTotal(e) < 1000
    THEN emotion_data[e].base_intensity + 80 * ExpectedTotal(e) ELSE 1000

\* a ranks before b: higher total, equal totals in lexicon order
RanksBefore(a, b) ==
  \/ ExpectedTotal(a) > ExpectedTotal(b)
  \/ ExpectedTotal(a) = ExpectedTotal(b) /\ OrderIndex(a) < OrderIndex(b)

TopRanked == CHOOSE a \in KeywordEmotions : \A b \in KeywordEmotions \ {a} : RanksBefore(a, b)

RunnerUp ==
  CHOOSE a \in KeywordEmotions \ {TopRanked} :
    \A b \in KeywordEmotions \ {TopRanked, a} : RanksBefore(a, b)

\* the runner-up is within 1.0 of the top-ranked emotion and more intense
RunnerUpWins ==
  /\ Cardinality(KeywordEmotions) > 1
  /\ ExpectedTotal(TopRanked) - ExpectedTotal(RunnerUp) < 1
  /\ ExpectedIntensity(RunnerUp) > ExpectedIntensity(TopRanked)

HybridDone == hybrid_out.emotion # "none"

\* C9: every scorer result has confidence and intensity within [0,1]
\* (confidence at most 0.98), and the hybrid's combined confidence
\* 0.6*rule + 0.4*external is within [0,1].
C9_Clamped ==
  /\ Scored =>
       /\ result.confidence \in 0..980
       /\ result.intensity \in 0..1000
  /\ HybridDone =>
       /\ hybrid_out.confidence \in 0..1000
       /\ 10 * hybrid_out.confidence =
            6 * result.confidence + 4 * hybrid_out.ml_result.confidence

\* both caps acted: the unclamped confidence and intensity exceed 1.0
C9_Witness ==
  /\ HybridDone
  /\ ~HasTrigger
  /\ KeywordEmotions # {}
  /\ 400 + 120 * ExpectedTotal(result.emotion) > 1000
  /\ emotion_data[result.emotion].base_intensity + 80 * ExpectedTotal(result.emotion) > 1000
  /\ result.confidence = 980
  /\ result.intensity = 1000

\* the tier-tagged keywords of emotion e found in the text
TaggedKeywords(e) ==
  {strong_tag \o Facts.strong[e][i] : i \in 1..Len(Facts.strong[e])}
  \cup {moderate_tag \o Facts.moderate[e][i] : i \in 1..Len(Facts.moderate[e])}

KeywordScored == result # NoResult /\ ~HasTrigger /\ KeywordEmotions # {}

TemplateStrings == EmotionRecommendations(result.emotion, result.intensity)

MatchedOverlays ==
  LET s == lower(text)
      hit(words) == \E i \in 1..Len(words) : Contains(words[i], s)
  IN  (IF hit(work_words)
         THEN <<"Remember to maintain work-life balance and take breaks when needed">>
         ELSE <<>>)
      \o (IF hit(relationship_words)
            THEN <<"Open and honest communication strengthens relationships">>
            ELSE <<>>)
      \o (IF hit(health_words)
            THEN <<"Prioritize your physical and mental wellbeing">>
            ELSE <<>>)

FirstThree(s) == IF Len(s) <= 3 THEN s ELSE SubSeq(s, 1, 3)

\* C11: every scorer result has at most 3 recommendations; for a scored
\* emotion the list is the emotion's 1-2 template strings followed by the
\* matched overlays in the order work, relationship, health, cut to its
\* first 3 entries.
C11_AsStated ==
  result # NoResult =>
    /\ Len(result.recommendations) <= 3
    /\ KeywordScored =>
         /\ Len(TemplateStrings) \in 1..2
         /\ result.recommendations = FirstThree(TemplateStrings \o MatchedOverlays)

\* the same list structure for the six emotions that have template strings
C11_NonNeutral ==
  (KeywordScored /\ result.emotion # "neutral") =>
    /\ Len(result.recommendations) <= 3
    /\ Len(TemplateStrings) = 2
    /\ result.recommendations = FirstThree(TemplateStrings \o MatchedOverlays)

C11_NeutralScored ==
  /\ KeywordScored
  /\ result.emotion = "neutral"
  /\ TemplateStrings = <<>>

(***************************************************************************)
(* The hybrid combiner's choice of label.                                  *)
(***************************************************************************)
HybridMethods == {"hybrid_agreement", "rule_based", "ml_based"}

\* C12: with rule confidence > 0.8 and external confidence > 0.7 the hybrid
\* result carries the rule-based label and method 'hybrid_agreement';
\* otherwise it carries the label of the more confident side with method
\* 'rule_based' or 'ml_based'; the label is always one of the two input
\* labels and the method one of the three tags.
C12_LabelSelection ==
  HybridDone =>
    LET r  == result.confidence
        ml == hybrid_out.ml_result
        m  == ml.confidence
        agree == r > 800 /\ m > 700
    IN  /\ hybrid_out.method \in HybridMethods
        /\ hybrid_out.emotion \in {result.emotion, ml.emotion}
        /\ agree => /\ hybrid_out.emotion = result.emotion
                    /\ hybrid_out.method = "hybrid_agreement"
        /\ (~agree /\ r > m) => /\ hybrid_out.emotion = result.emotion
                                /\ hybrid_out.method = "rule_based"
        /\ (~agree /\ m > r) => /\ hybrid_out.emotion = ml.emotion
                                /\ hybrid_out.method = "ml_based"
        /\ (~agree /\ m = r) => hybrid_out.method \in {"rule_based", "ml_based"}

\* agreement although the external side is the more confident one and
\* names another label
C12_Witness ==
  /\ HybridDone
  /\ hybrid_out.method = "hybrid_agreement"
  /\ hybrid_out.ml_result.confidence > result.confidence
  /\ hybrid_out.ml_result.emotion # result.emotion
  /\ hybrid_out.emotion = result.emotion

\* equal confidences: the external label is taken
C12_TieTakesExternal ==
  /\ HybridDone
  /\ hybrid_out.ml_result.confidence = result.confidence
  /\ hybrid_out.method = "ml_based"

(***************************************************************************)
(* The combiner when the external classifier gives no answer.              *)
(***************************************************************************)
NoExternalAnswer ==
  /\ hybrid_out # NoResult
  /\ hybrid_out.ml_result \in {MLRaises, MLSilent}

\* C13: when the external classifier raises or never responds, the call of
\* the combiner still completes with a result that carries the rule-based
\* label, method 'rule_based' and the external side counted as confidence 0.
C13_DegradedResult ==
  NoExternalAnswer =>
    /\ hybrid_out.emotion = result.emotion
    /\ hybrid_out.method = "rule_based"
    /\ 10 * hybrid_out.confidence = 6 * result.confidence

(***************************************************************************)
(* server.py: what analyze_emotion returns when the classifier gave        *)
(* nothing usable.                                                         *)
(***************************************************************************)
AIDone == ai.pc = "done"

\* the call went to the classifier and both retry loops returned None
ClassifierUnavailable ==
  /\ AIDone
  /\ ai.path = "api"
  /\ ai.emotion_result = NoAnswer
  /\ ai.sentiment_result = NoAnswer

\* the classifier answered and the processed confidence is at most 0.3
ClassifierLowConfidence ==
  /\ AIDone
  /\ ai.path = "api"
  /\ ai.emotion_result.kind = "list"
  /\ ai.sentiment_result.kind # "strings"
  /\ _process_ai_results(AsList(ai.emotion_result), AsList(ai.sentiment_result),
                         ai.text).confidence <= 300

\* C14: when the classifier is unavailable (both retry loops return None)
\* or its result is low-confidence, analyze_emotion returns the keyword
\* result of analyze_enhanced for the text, with is_ai_analyzed false.
C14_FallsBackToScorer ==
  (ClassifierUnavailable \/ ClassifierLowConfidence) =>
    /\ ai.ret = EnhancedTable[ai.text]
    /\ ~ai.ret.is_ai_analyzed

\* the low-confidence half on its own
C14_LowConfidenceFallsBack ==
  ClassifierLowConfidence =>
    /\ ai.ret = EnhancedTable[ai.text]
    /\ ~ai.ret.is_ai_analyzed

C14_LowConfidenceSeen == ClassifierLowConfidence

(***************************************************************************)
(* What the caller gets when a step of the combined analysis raises.       *)
(***************************************************************************)
\* analyze_emotion_advanced ran with the advanced features and its hybrid
\* step raised
AdvancedFaulted ==
  /\ last_call.op = "analyze_emotion_advanced"
  /\ last_call.fault

\* C15: when a step of the combined analysis raises, the caller receives a
\* neutral fallback result that carries an error marker.
C15_NeutralErrorFallback ==
  AdvancedFaulted =>
    /\ last_call.ret.emotion = "neutral"
    /\ "error" \in DOMAIN last_call.ret

\* what the except branch of lines 338-342 returns instead: the plain
\* scorer result of the text
C15_ScorerFallback ==
  AdvancedFaulted => last_call.ret = ScorerTable[last_call.text]

\* server.py: an exception in _process_ai_results is answered inside
\* analyze_with_huggingface by analyze_enhanced, so the error-marked result
\* of analyze_emotion's own except branch is never returned
C15_EnhancedFallback ==
  (AIDone /\ ai.path = "api"
     /\ MalformedAnswer \in {ai.emotion_result, ai.sentiment_result}) =>
    /\ ai.ret = EnhancedTable[ai.text]
    /\ ai.ret # AnalysisFailed

(***************************************************************************)
(* The labels of a result built from classifier output.                    *)
(***************************************************************************)
\* the closed emotion set, as names and as the character strings of labels
ClosedSet == {EnhancedOrder[i] : i \in 1..Len(EnhancedOrder)}

ClosedLabels == {Chars[e] : e \in ClosedSet}

\* the result was built by _process_ai_results from an emotion answer
BuiltFromClassifier ==
  /\ AIDone
  /\ ai.path = "api"
  /\ ai.ret.is_ai_analyzed
  /\ ai.emotion_result \notin {NoAnswer, MalformedAnswer}

\* C16: every emotion label of a result built from classifier output, the
\* primary emotion and each entry of secondary_emotions, belongs to the
\* closed set {joy, fear, sadness, anger, love, peace, neutral}.
C16_LabelsInClosedSet ==
  BuiltFromClassifier =>
    /\ ai.ret.emotion \in ClosedSet
    /\ \A i \in 1..Len(ai.ret.secondary_emotions) :
         ai.ret.secondary_emotions[i] \in ClosedLabels

\* the primary emotion alone is always in the closed set (line 431 maps
\* unrecognized labels to 'neutral')
C16_PrimaryInClosedSet ==
  BuiltFromClassifier => ai.ret.emotion \in ClosedSet

\* an unrecognized label becomes the primary emotion 'neutral'
C16_UnrecognizedPrimary ==
  /\ BuiltFromClassifier
  /\ ai.ret.raw_emotion_label \notin {emotion_mapping[i][1] : i \in 1..Len(emotion_mapping)}
  /\ ai.ret.emotion = "neutral"

(***************************************************************************)
(* Claims about the feedback analyzer and collector.                       *)
(***************************************************************************)
\* the last operation was generate_improvement_suggestions
SuggestionsReturned == feedback_out.op = "generate_improvement_suggestions"

\* the (predicted, corrected) pairs a correction can carry
FeedbackPairs ==
  {<<c.predicted_emotion, c.user_corrected_emotion>> : c \in Corrections}

\* the rows of the feedback table recorded for a pair
RecordedFor(pair) ==
  {i \in 1..Len(feedback) :
     /\ feedback[i].predicted_emotion = pair[1]
     /\ feedback[i].user_corrected_emotion = pair[2]}

PairCount(pair) == Cardinality(RecordedFor(pair))

\* the positions of the returned suggestions made for a pair
SuggestionsFor(pair) ==
  {i \in 1..Len(feedback_out.ret) : feedback_out.ret[i].affected_emotions = pair}

\* C17: generate_improvement_suggestions returns exactly one suggestion for
\* each (predicted, corrected) pair recorded at least 3 times and none for a
\* pair recorded fewer than 3 times; the priority is 'high' if the count is
\* at least 5 and 'medium' otherwise, and estimated_impact is the count.
C17_SuggestionThreshold ==
  SuggestionsReturned =>
    /\ \A pair \in FeedbackPairs :
         Cardinality(SuggestionsFor(pair)) = IF PairCount(pair) >= 3 THEN 1 ELSE 0
    /\ \A i \in 1..Len(feedback_out.ret) :
         LET s == feedback_out.ret[i]
             n == PairCount(s.affected_emotions)
         IN  /\ s.affected_emotions \in FeedbackPairs
             /\ s.priority = (IF n >= 5 THEN "high" ELSE "medium")
             /\ s.estimated_impact = n

\* one pair recorded 5 times has its 'high' suggestion while another pair
\* recorded twice has none
C17_Witness ==
  /\ SuggestionsReturned
  /\ \E pair \in FeedbackPairs :
       /\ PairCount(pair) = 5
       /\ \E i \in SuggestionsFor(pair) : feedback_out.ret[i].priority = "high"
  /\ \E pair \in FeedbackPairs :
       /\ PairCount(pair) = 2
       /\ SuggestionsFor(pair) = {}

\* a pair recorded 3 or 4 times has its 'medium' suggestion
C17_MediumSeen ==
  /\ SuggestionsReturned
  /\ \E pair \in FeedbackPairs :
       /\ PairCount(pair) \in {3, 4}
       /\ \E i \in SuggestionsFor(pair) : feedback_out.ret[i].priority = "medium"

\* the last operation was collect_correction
CorrectionCollected == feedback_out.op = "collect_correction"

\* the pair of the last correction had no row before that correction
FirstOfItsPair ==
  \A i \in 1..(Len(feedback) - 1) :
    <<feedback[i].predicted_emotion, feedback[i].user_corrected_emotion>>
      # <<feedback_out.predicted, feedback_out.corrected>>

\* the last correction inserted one model_improvements row
FlagRaised == Len(model_improvements) = feedback_out.improvements_before + 1

\* C18: collect_correction raises the new-pattern flag (inserts one
\* model_improvements row) exactly when the submitted pair has not been
\* recorded before: the first submission of a pair is flagged and later
\* submissions of the same pair are not.
C18_FlagOnFirstSubmission ==
  CorrectionCollected => (FlagRaised <=> FirstOfItsPair)

\* what the code does: the row of the correction itself is in the table when
\* the pattern test runs, so no correction is ever flagged
C18_NeverFlagged == model_improvements = <<>>

\* a first submission of a pair has been collected
C18_FirstSubmissionSeen == CorrectionCollected /\ FirstOfItsPair

\* the texts submitted for a pair
TextsFor(pair) == {feedback[i].original_text : i \in RecordedFor(pair)}

\* C19: the suggestions returned by generate_improvement_suggestions are
\* ordered by descending group count of their (predicted, corrected) pair,
\* and each suggestion carries at most 5 example texts, all of which were
\* submitted for that pair.
C19_OrderAndExamples ==
  SuggestionsReturned =>
    /\ \A i, j \in 1..Len(feedback_out.ret) :
         i < j => PairCount(feedback_out.ret[i].affected_emotions)
                    >= PairCount(feedback_out.ret[j].affected_emotions)
    /\ \A i \in 1..Len(feedback_out.ret) :
         LET s == feedback_out.ret[i]
         IN  /\ Len(s.examples) <= 5
             /\ \A k \in 1..Len(s.examples) :
                  s.examples[k] \in TextsFor(s.affected_emotions)

\* two suggestions of different counts are returned, the last correction
\* being one of the pair of the smaller count
C19_Witness ==
  /\ SuggestionsReturned
  /\ Len(feedback_out.ret) = 2
  /\ PairCount(feedback_out.ret[1].affected_emotions)
       > PairCount(feedback_out.ret[2].affected_emotions)
  /\ Len(feedback) \in RecordedFor(feedback_out.ret[2].affected_emotions)

\* a pair recorded more than 5 times keeps 5 examples
C19_CutSeen ==
  /\ SuggestionsReturned
  /\ \E i \in 1..Len(feedback_out.ret) :
       /\ PairCount(feedback_out.ret[i].affected_emotions) > 5
       /\ Len(feedback_out.ret[i].examples) = 5

(***************************************************************************)
(* Claims about the conversation summary.                                  *)
(***************************************************************************)
\* the last operation was a summary request answered by the analyzer
SummaryRequested ==
  /\ last_call.op = "get_conversation_summary"
  /\ advanced_features_available

\* no call has recorded an entry for the conversation
NothingRecorded(conversation_id) == history_of(call_log, conversation_id) = <<>>

NotFound == [error |-> "Conversation not found"]

\* C20: get_conversation_summary for a conversation_id with no recorded
\* history answers with the not-found condition and no summary, and the
\* lookup leaves no key for that conversation_id in conversation_history,
\* so that a later request for the same id is answered in the same way.
C20_NotFoundCreatesNoKey ==
  (SummaryRequested /\ NothingRecorded(last_call.conversation_id)) =>
    /\ last_call.ret = NotFound
    /\ last_call.conversation_id \notin DOMAIN conversation_history
    /\ get_conversation_summary(conversation_history,
                                last_call.conversation_id).ret = NotFound

\* a summary of an unrecorded conversation was requested while another
\* conversation has history
C20_Witness ==
  /\ SummaryRequested
  /\ NothingRecorded(last_call.conversation_id)
  /\ last_call.ret = NotFound
  /\ conversation_history # <<>>

\* a recorded conversation gets a summary, not the not-found answer
C20_SummaryOfRecorded ==
  (SummaryRequested /\ ~NothingRecorded(last_call.conversation_id)) =>
    /\ "error" \notin DOMAIN last_call.ret
    /\ last_call.ret.total_messages
         = Len(conversation_history[last_call.conversation_id])

(***************************************************************************)
(* The trend of the context window.                                        *)
(***************************************************************************)
\* analyze_context has answered for the history window_history
WindowAnalyzed == window_out # NoResult

\* C21: analyze_context on a conversation whose history is empty reports
\* trend 'new_conversation', and on a conversation with exactly one prior
\* entry reports trend 'stable'; the trend is computed from the entries
\* recorded before the call.
C21_FirstCallsTrend ==
  WindowAnalyzed =>
    /\ window_history = <<>> =>
         window_out.context_analysis.context_trend = "new_conversation"
    /\ Len(window_history) = 1 =>
         window_out.context_analysis.context_trend = "stable"

\* what lines 133-134 answer for an empty history: trend 'neutral' and no
\* context emotion; 'new_conversation' is the transition_type
C21_EmptyHistoryNeutral ==
  (WindowAnalyzed /\ window_history = <<>>) =>
    /\ window_out.context_analysis.context_trend = "neutral"
    /\ window_out.context_analysis.context_emotion = "None"
    /\ window_out.transition_analysis.transition_type = "new_conversation"

\* one prior entry gives 'stable', with that entry's label as the pattern
C21_OnePriorEntryStable ==
  (WindowAnalyzed /\ Len(window_history) = 1) =>
    /\ window_out.context_analysis.context_trend = "stable"
    /\ window_out.context_analysis.pattern = <<window_history[1].emotion>>

\* a call on a history of one entry has been answered
C21_OnePriorEntrySeen ==
  /\ WindowAnalyzed
  /\ Len(window_history) = 1
  /\ window_out.context_analysis.context_trend = "stable"

DeescalationTails ==
  {<<"anger", "sadness", "neutral">>,
   <<"ecstasy", "joy", "peace">>,
   <<"terror", "fear", "anxiety">>}

EndsDeescalating == Len(window_history) >= 3 /\ WindowTail \in DeescalationTails

\* the labels of the last window_size entries of the history
WindowedLabels ==
  {window_history[i].emotion :
     i \in {j \in 1..Len(window_history) : j > Len(window_history) - window_size}}

\* the history has entries and its tail matches no pattern
NoPatternAtTail ==
  /\ WindowAnalyzed
  /\ window_history # <<>>
  /\ ~EndsEscalating
  /\ ~EndsDeescalating

\* C22: when the tail of the windowed label sequence matches no escalation
\* and no de-escalation pattern, the trend is 'stable' if all labels of the
\* window are identical, 'volatile' if at least 3 distinct labels appear and
\* 'mixed' otherwise; a de-escalation pattern at the tail yields
\* 'de-escalating' even when the window holds 3 or more distinct labels.
C22_TrendClasses ==
  /\ NoPatternAtTail =>
       window_out.context_analysis.context_trend
         = (IF Cardinality(WindowedLabels) = 1 THEN "stable"
            ELSE IF Cardinality(WindowedLabels) >= 3 THEN "volatile"
            ELSE "mixed")
  /\ (WindowAnalyzed /\ EndsDeescalating) =>
       window_out.context_analysis.context_trend = "de-escalating"

\* a de-escalation pattern at the tail of a window of 4 distinct labels
C22_Witness ==
  /\ WindowAnalyzed
  /\ EndsDeescalating
  /\ Cardinality(WindowedLabels) = 4
  /\ window_out.context_analysis.context_trend = "de-escalating"

\* a window of two distinct labels, longer than two entries, is 'mixed'
C22_MixedSeen ==
  /\ NoPatternAtTail
  /\ Len(window_history) > 2
  /\ Cardinality(WindowedLabels) = 2
  /\ window_out.context_analysis.context_trend = "mixed"

\* a window of three distinct labels without a pattern is 'volatile'
C22_VolatileSeen ==
  /\ NoPatternAtTail
  /\ Cardinality(WindowedLabels) = 3
  /\ window_out.context_analysis.context_trend = "volatile"

(***************************************************************************)
(* The overall trend of a conversation summary.                            *)
(***************************************************************************)
\* a summary of the history window_history has been returned
WindowSummarized ==
  /\ last_call.op = "get_conversation_summary"
  /\ window_history # <<>>

\* the entries of the history labelled with one of the given emotions
LabelledIn(labels) ==
  Cardinality({i \in 1..Len(window_history) : window_history[i].emotion \in labels})

\* the trend by comparison of the positive and negative counts
TrendByCounts ==
  LET positive == LabelledIn({"joy", "love", "peace"})
      negative == LabelledIn({"sadness", "anger", "fear"})
  IN  IF positive > negative THEN "positive"
      ELSE IF negative > positive THEN "negative"
      ELSE "neutral"

\* C23: for every conversation with recorded history the summary's overall
\* trend is 'positive' when entries labelled joy/love/peace outnumber those
\* labelled sadness/anger/fear, 'negative' when the reverse holds and
\* 'neutral' when the counts are equal; no other value is returned.
C23_TrendByCounts ==
  WindowSummarized => last_call.ret.emotional_trend = TrendByCounts

\* with two or more entries the trend is the one of the counts
C23_TwoOrMoreEntries ==
  (WindowSummarized /\ Len(window_history) >= 2) =>
    last_call.ret.emotional_trend = TrendByCounts

\* with one entry the trend is 'stable' whatever its label (line 366)
C23_OneEntryStable ==
  (WindowSummarized /\ Len(window_history) = 1) =>
    last_call.ret.emotional_trend = "stable"

\* a summary with more negative than positive entries has been returned
C23_NegativeSeen ==
  /\ WindowSummarized
  /\ LabelledIn({"joy", "love", "peace"}) = 1
  /\ LabelledIn({"sadness", "anger", "fear"}) = 2
  /\ last_call.ret.emotional_trend = "negative"

(***************************************************************************)
(* The tie-break of the keyword scorer and the maximum total score.        *)
(***************************************************************************)
\* the emotions whose total score is the maximum
TopScorers ==
  {e \in KeywordEmotions :
     \A other \in KeywordEmotions : ExpectedTotal(e) >= ExpectedTotal(other)}

\* C24: the emotion returned by the keyword scorer has the maximum total
\* score over all emotions; the tie-break swaps the two top-ranked emotions
\* only when their scores are equal, and it never returns a third emotion
\* tied at the top, even when that one has the highest intensity.
C24_MaximumTotal ==
  (Scored /\ ~HasTrigger /\ KeywordEmotions # {}) =>
    /\ result.emotion \in TopScorers
    /\ result.emotion # TopRanked =>
         /\ result.emotion = RunnerUp
         /\ ExpectedTotal(RunnerUp) = ExpectedTotal(TopRanked)

\* three emotions are tied at the top and one that is neither the
\* top-ranked nor the runner-up has the highest intensity of all
C24_Witness ==
  /\ Scored
  /\ ~HasTrigger
  /\ Cardinality(TopScorers) >= 3
  /\ \E third \in TopScorers \ {TopRanked, RunnerUp} :
       \A e \in TopScorers \ {third} : ExpectedIntensity(third) > ExpectedIntensity(e)
  /\ result.emotion \in {TopRanked, RunnerUp}

(***************************************************************************)
(* The history entry of a call of analyze_emotion_advanced.                *)
(***************************************************************************)
\* the step is a call of analyze_emotion_advanced with the advanced
\* features available
AdvancedCallStep ==
  /\ advanced_features_available
  /\ clock' = clock + 1
  /\ last_call'.op = "analyze_emotion_advanced"

\* the conversation's history after the step is its history before with one
\* entry for the call's text added at the end, the oldest entry leaving a
\* full window
OneEntryAppended ==
  LET before == history_of(conversation_history, last_call'.conversation_id)
      after  == history_of(conversation_history', last_call'.conversation_id)
      kept   == IF Len(before) = window_size THEN Tail(before) ELSE before
  IN  /\ Len(after) = Len(kept) + 1
      /\ SubSeq(after, 1, Len(kept)) = kept
      /\ after[Len(after)].text = last_call'.text
      /\ after[Len(after)].timestamp = clock

\* C25: each call of analyze_emotion_advanced (advanced features available)
\* appends exactly one entry to the given conversation's history, also when
\* the hybrid step raises and the call falls back to the rule-based result.
C25_OneEntryPerCall == [][AdvancedCallStep => OneEntryAppended]_vars

\* a call whose hybrid step raised has returned the rule-based result and
\* its entry is the newest of a history that already had entries
C25_Witness ==
  /\ AdvancedFaulted
  /\ last_call.ret = ScorerTable[last_call.text]
  /\ LET h == history_of(conversation_history, last_call.conversation_id)
     IN  /\ Len(h) >= 2
         /\ h[Len(h)].text = last_call.text
         /\ h[Len(h)].timestamp = clock - 1

(***************************************************************************)
(* The circuit breaker in front of the two retry loops.                    *)
(***************************************************************************)
\* the step is one attempt of _get_emotion_with_retry or of
\* _get_sentiment_with_retry
AttemptStep == ai.pc \in {"emotion", "sentiment"} /\ ai' # ai

\* seconds since the failure that opened the breaker
SinceLastFailure == utcnow - circuit_breaker_state.last_failure[1]

\* the attempt ended its loop with None, made no request and left the
\* breaker as it was
ReturnedNoneUnrequested ==
  /\ ~ai'.requested
  /\ ai'.pc = (IF ai.pc = "emotion" THEN "sentiment" ELSE "process")
  /\ (IF ai.pc = "emotion" THEN ai'.emotion_result ELSE ai'.sentiment_result) = NoAnswer
  /\ circuit_breaker_state' = circuit_breaker_state

\* the attempt closed the breaker, counted failures from 0 again (the
\* request it issued may itself have failed) and issued its request
ClosedResetRequested ==
  /\ ai'.requested
  /\ ~circuit_breaker_state'.is_open
  /\ circuit_breaker_state'.failures <= 1

\* C26: while the circuit breaker is open and fewer than
\* circuit_breaker_timeout seconds have passed since last_failure, an attempt
\* of either retry loop returns None without a request; an attempt made once
\* more than circuit_breaker_timeout seconds have passed closes the breaker,
\* resets failures to 0 and issues the request.
C26_BreakerGate ==
  [][AttemptStep /\ circuit_breaker_state.is_open
       => /\ SinceLastFailure < circuit_breaker_timeout => ReturnedNoneUnrequested
          /\ SinceLastFailure > circuit_breaker_timeout => ClosedResetRequested]_vars

\* an attempt made exactly circuit_breaker_timeout seconds after last_failure
\* is still answered None without a request (line 316 compares with >)
C26_AtTimeoutBlocked ==
  [][AttemptStep /\ circuit_breaker_state.is_open
       /\ SinceLastFailure = circuit_breaker_timeout
       => ReturnedNoneUnrequested]_vars

\* an attempt after the timeout has closed the breaker and issued its
\* request, which did not fail
C26_Witness ==
  /\ ai.pc # "idle"
  /\ ai.path = "api"
  /\ ai.requested
  /\ ~circuit_breaker_state.is_open
  /\ circuit_breaker_state.failures = 0
  /\ circuit_breaker_state.last_failure # None
  /\ utcnow - circuit_breaker_state.last_failure[1] > circuit_breaker_timeout

\* an attempt of the emotion loop has been turned away by the open breaker
C26_BlockedSeen ==
  /\ ai.pc = "sentiment"
  /\ ai.path = "api"
  /\ ~ai.requested
  /\ circuit_breaker_state.is_open
  /\ SinceLastFailure < circuit_breaker_timeout

\* an attempt has been turned away exactly at the timeout
C26_AtTimeoutSeen ==
  /\ ai.pc = "sentiment"
  /\ ai.path = "api"
  /\ ~ai.requested
  /\ circuit_breaker_state.is_open
  /\ SinceLastFailure = circuit_breaker_timeout

(***************************************************************************)
(* What moves the circuit breaker.                                         *)
(***************************************************************************)
\* the step is an attempt of either loop whose request was answered by resp
AttemptAnswered(resp) ==
  /\ AttemptStep
  /\ ai'.requested
  /\ AI_EmotionAttempt(resp) \/ AI_SentimentAttempt(resp)

\* every outcome of a request of either loop
AnyResponse == Responses(EmotionBodies) \cup Responses(SentimentBodies)

\* the outcomes the code counts as failures: a timeout, an exception, a
\* status other than 200 and 503
FailureKinds == {"timeout", "exception", "500"}

C27_OpenHasLastFailure ==
  circuit_breaker_state.is_open => circuit_breaker_state.last_failure # None

\* the breaker goes from closed to open only in an attempt whose request
\* timed out, raised or was answered by a status other than 200 and 503,
\* that failure bringing failures to circuit_breaker_failures or more
C27_OpenedOnlyByFailure ==
  [][~circuit_breaker_state.is_open /\ circuit_breaker_state'.is_open
       => /\ \E resp \in AnyResponse : resp.kind \in FailureKinds /\ AttemptAnswered(resp)
          /\ \A resp \in AnyResponse : AttemptAnswered(resp) => resp.kind \in FailureKinds
          /\ circuit_breaker_state'.failures = circuit_breaker_state.failures + 1
          /\ circuit_breaker_state'.failures >= circuit_breaker_failures]_vars

\* an attempt answered 503 never increments failures
C27_UnavailableNeverCounts ==
  [][\A resp \in AnyResponse :
       AttemptAnswered(resp) /\ resp.kind = "503"
         => circuit_breaker_state'.failures <= circuit_breaker_state.failures]_vars

\* a 200 response whose body parses leaves failures at 0; one whose body
\* does not parse leaves failures at 1, whatever it was before
C27_OkByBody ==
  [][\A resp \in AnyResponse :
       AttemptAnswered(resp) /\ resp.kind = "200"
         => circuit_breaker_state'.failures = (IF resp.json = "invalid" THEN 1 ELSE 0)]_vars

\* the emotion loop has ended on a 200 response with failures at 1 and the
\* breaker closed
C27_UnparsedSeen ==
  /\ ai.pc = "sentiment"
  /\ ai.requested
  /\ ai.emotion_result = NoAnswer
  /\ circuit_breaker_state.failures = 1
  /\ circuit_breaker_state.last_failure = None

\* the breaker has been opened
C27_OpenSeen ==
  /\ circuit_breaker_state.is_open
  /\ circuit_breaker_state.failures >= circuit_breaker_failures

(***************************************************************************)
(* The retry loops end.  Inside an iteration the code awaits session.post  *)
(* (total timeout 10 s), response.json() and asyncio.sleep, all of which   *)
(* return or raise, so an attempt that is due is eventually made.          *)
(***************************************************************************)
AttemptsFair ==
  /\ WF_vars(\E resp \in Responses(EmotionBodies) : AI_EmotionAttempt(resp))
  /\ WF_vars(\E resp \in Responses(SentimentBodies) : AI_SentimentAttempt(resp))

SpecAILive == SpecAI /\ AttemptsFair

\* the attempt of the step was the last of its loop
LoopEnded == ai'.pc # ai.pc

\* what the loop of the step returned
LoopResult == IF ai.pc = "emotion" THEN ai'.emotion_result ELSE ai'.sentiment_result

C28_EmptyListSeen ==
  /\ ai.pc = "sentiment"
  /\ ai.emotion_result = Answer(<<>>)

(***************************************************************************)
(* What analyze_context and get_conversation_summary leave alone.          *)
(***************************************************************************)
\* the step is a call of analyze_context, made directly or by
\* analyze_emotion_advanced
ContextCallStep ==
  /\ advanced_features_available
  /\ clock' = clock + 1
  /\ last_call'.op \in {"analyze_context", "analyze_emotion_advanced"}

\* the step is a call of get_conversation_summary
SummaryCallStep ==
  /\ advanced_features_available
  /\ clock' = clock
  /\ last_call'.op = "get_conversation_summary"

\* every conversation but the given one has the history it had, and no
\* other conversation has appeared or gone
OtherHistoriesKept(conversation_id) ==
  \A c \in (DOMAIN conversation_history \cup DOMAIN conversation_history')
             \ {conversation_id} :
    /\ c \in DOMAIN conversation_history
    /\ c \in DOMAIN conversation_history'
    /\ conversation_history'[c] = conversation_history[c]

\* C29: analyze_context(text, user_id, conversation_id) changes only the
\* history of the given conversation: the histories of all other
\* conversations and the user_patterns map stay as they were; and
\* get_conversation_summary changes no state at all.
C29_Frame ==
  [][/\ ContextCallStep =>
          /\ OtherHistoriesKept(last_call'.conversation_id)
          /\ user_patterns' = user_patterns
          /\ last_call'.user_id \notin DOMAIN user_patterns'
     /\ SummaryCallStep =>
          /\ conversation_history' = conversation_history
          /\ user_patterns' = user_patterns]_vars

\* analyze_context has been called for conv1 while the default conversation
\* had a history of its own, and conv1's history holds the call's text
C29_Witness ==
  /\ last_call.op = "analyze_context"
  /\ last_call.conversation_id = "conv1"
  /\ "default" \in DOMAIN conversation_history
  /\ Len(conversation_history["default"]) >= 2
  /\ conversation_history["conv1"][Len(conversation_history["conv1"])].text = last_call.text

\* a summary has been given for a conversation with a history
C29_SummarySeen ==
  /\ last_call.op = "get_conversation_summary"
  /\ last_call.conversation_id \in DOMAIN conversation_history
  /\ conversation_history[last_call.conversation_id] # <<>>

(***************************************************************************)
(* What a hybrid result takes from the rule-based result.                  *)
(***************************************************************************)
\* the hybrid result carries the ML label, which is not the rule-based one
MLLabelReturned ==
  /\ hybrid_out.method = "ml_based"
  /\ hybrid_out.ml_result.emotion # result.emotion
  /\ hybrid_out.emotion = hybrid_out.ml_result.emotion

\* C30: the color, intensity, recommendations and matches of every hybrid
\* result are those of the rule-based input result, whichever label is
\* selected; when the method is 'ml_based' and the ML label differs from the
\* rule-based label, the color is the lexicon color of the rule-based
\* emotion and not the lexicon color of the returned emotion.
C30_RuleBasedPresentation ==
  HybridDone =>
    /\ hybrid_out.color = result.color
    /\ hybrid_out.intensity = result.intensity
    /\ hybrid_out.recommendations = result.recommendations
    /\ hybrid_out.matches = result.matches
    /\ MLLabelReturned =>
         /\ hybrid_out.color = emotion_data[result.emotion].color
         /\ hybrid_out.emotion \in Emotions =>
              hybrid_out.color # emotion_data[hybrid_out.emotion].color

\* a hybrid result returns the ML label with the color, matches and
\* recommendations of a rule-based result of another, scored emotion
C30_Witness ==
  /\ HybridDone
  /\ MLLabelReturned
  /\ result.emotion # "neutral"
  /\ result.matches # <<>>
  /\ hybrid_out.matches = result.matches
  /\ hybrid_out.color = emotion_data[result.emotion].color

\* the same for the result of analyze_emotion_advanced (server_simple.py
\* lines 323-335): color, intensity, recommendations and matches are those
\* of the rule-based result of the text
C30_AdvancedPresentation ==
  (/\ last_call.op = "analyze_emotion_advanced"
   /\ advanced_features_available
   /\ ~last_call.fault) =>
    /\ last_call.ret.color = ScorerTable[last_call.text].color
    /\ last_call.ret.intensity = ScorerTable[last_call.text].intensity
    /\ last_call.ret.recommendations = ScorerTable[last_call.text].recommendations
    /\ last_call.ret.matches = ScorerTable[last_call.text].matches

\* analyze_emotion_advanced has returned a label other than the rule-based
\* one
C30_AdvancedSeen ==
  /\ last_call.op = "analyze_emotion_advanced"
  /\ advanced_features_available
  /\ ~last_call.fault
  /\ last_call.ret.method = "ml_based"
  /\ last_call.ret.emotion # ScorerTable[last_call.text].emotion

====
